---- MODULE Spec2Model ----
\* Verification model of the audio stream buffers (SampleBuffer, Period,
\* PeriodBuffer) and the Step / Chain / Pipeline abstraction of the audio crate.
EXTENDS Integers, Naturals, Sequences, FiniteSets, TLC

\* ---------------------------------------------------------------------------
\* Bounds
\* ---------------------------------------------------------------------------
MaxLenBound == 3
MaxChannels == 2
MaxFrameLen == 4
MaxSampleCount == 7
Rates == {1, 2}

\* The buffers' sample rate (SampleBuffer::new argument); frames may carry
\* another rate.
BufRate == 1

VARIABLES
    maxLen,        \* SampleBuffer.max_len
    channels,      \* SampleBuffer.channels
    sampleRate,    \* SampleBuffer.sample_rate
    rings,         \* SampleBuffer.buffers: per channel VecDeque (physical)
    sampleCount,   \* SampleBuffer.sample_count
    hist,          \* ghost: per channel, every sample ever pushed
    panicked,      \* a panic aborted the last call
    lastFrame,     \* the frame of the last push
    periodLen,     \* PeriodBuffer.period_len
    periodStride,  \* PeriodBuffer.period_stride
    nextPeriodEnd, \* PeriodBuffer.next_period_end
    periodsOut,    \* ghost: number of periods PeriodBuffer::next has returned
    lastPeriod,    \* the result of the last PeriodBuffer::next
    gcRes,         \* the last Period::get_channel query and its result
    stepCalls,     \* ghost: number of Step::process calls made by the pipeline
    sink,          \* items the pipeline's output has accepted, in order
    pipeRes,       \* result of the last Pipeline::process_once
    lastTick,      \* what the last process_once read, produced and pushed
    chainPc,       \* position of the consumer of Chain::process's result
    chainInter,    \* intermediates yielded by first.process
    chainYield,    \* items the ChainResult iterator has yielded
    accFrameLen,   \* FrameAccumulator.frame_len
    accChannels,   \* FrameAccumulator.channels
    accSamples,    \* FrameAccumulator.samples
    accIn,         \* ghost: every input given to FrameAccumulator::process
    accOut,        \* ghost: the samples of every emitted Frame, concatenated
    accLast,       \* result of the last FrameAccumulator::process
    accResized,    \* ghost: with_frame_len has changed frame_len since new
    accPanicked,   \* with_frame_len's assertion failed
    outQ,          \* OutputDevice channel: queued Frames (sample sequences)
    outCur,        \* FrameReceiver.cur_frame (samples)
    outCurSample,  \* FrameReceiver.cur_sample (-1 for None)
    outSenderClosed, \* the OutputDevice (sender) has been dropped
    outRxDropped,  \* the output stream (receiver) has been dropped
    prodPc,        \* producer thread: "idle" or "blocked" in send_blocking
    prodFrame,     \* the Frame the producer is pushing
    prodRes,       \* result of the producer's last OutputDevice::push
    outPushed,     \* ghost: samples of the Frames enqueued, in push order
    outWritten,    \* ghost: samples copied by fill_buffer, in call order
    outGen,        \* ghost: number of Frames the producer has generated
    lastFill,      \* the last fill_buffer call and its result
    fill,          \* the fill_buffer call in progress on the callback thread
    capQ,          \* InputDevice channel: queued Frames (by callback number)
    capCount,      \* ghost: number of input callbacks so far
    capDropped,    \* ghost: callback numbers whose Frame was dropped
    capRecv,       \* ghost: Frames the reader has received, in order
    capRxGone,     \* the InputDevice (receiver) has been dropped
    exPc,          \* Executor::run position: "read", "send" or "exit"
    exPending,     \* messages of the current frame not yet sent
    exSc,          \* Executor PeriodBuffer sample_count
    exNpe,         \* Executor PeriodBuffer next_period_end
    exWav,         \* samples written to the WAV sink
    exSent,        \* ghost: messages sent to the consumer channel, in order
    exReads,       \* ghost: number of input reads
    exInputFailed, \* ghost: a read failed
    exClosedSends, \* ghost: number of AudioStreamClosed send attempts
    exSendFailed,  \* ghost: a send failed because the consumer was closed
    conQ,          \* consumer channel: queued messages
    conRecv,       \* ghost: messages the consumer has received
    conClosed,     \* the consumer (receiver) has been dropped
    phHist,        \* PolarFFT phases (units of PI/4) after 0, 1, 2.. unwrap_phase calls
    foldIn,        \* PolarFFT values (magnitude, phase) handed to into_folded
    foldRate,      \* PolarFFT sample_rate
    foldOut,       \* the FoldedFFT into_folded returned (or none)
    freqOut,       \* frequencies() and nyquist_frequency() of foldOut (or none)
    itLen,         \* IteratorInput: number of samples the iterator yields
    itFrameLen,    \* IteratorInput frame_len
    itPos,         \* samples taken from the iterator so far
    itOut,         \* ghost: results of the next() calls so far
    inputClosed,   \* the Executor's input adapter reports closure from now on
    wavChannels,   \* WavWriter spec.channels
    wavRate,       \* WavWriter spec.sample_rate (= flush_every)
    wavCount,      \* WavWriter unflushed_count
    wavWritten,    \* ghost: interleaved samples written so far
    wavFlushedAt,  \* ghost: wavWritten at the last flush
    wavLastLen,    \* ghost: sample count of the last pushed frame
    wavLastGap,    \* ghost: samples written between the last two flushes
    wavPushes      \* ghost: number of push calls

bufVars == <<maxLen, channels, sampleRate, rings, sampleCount, hist>>
pbVars == <<periodLen, periodStride, nextPeriodEnd, periodsOut, lastPeriod>>
pipeVars == <<stepCalls, sink, pipeRes, lastTick>>
chainVars == <<chainPc, chainInter, chainYield>>
accVars == <<accFrameLen, accChannels, accSamples, accIn, accOut, accLast, accResized,
            accPanicked>>
outVars == <<outQ, outCur, outCurSample, outSenderClosed, outRxDropped, prodPc, prodFrame,
             prodRes, outPushed, outWritten, outGen, lastFill, fill>>
capVars == <<capQ, capCount, capDropped, capRecv, capRxGone>>
exVars == <<exPc, exPending, exSc, exNpe, exWav, exSent, exReads, exInputFailed,
            exClosedSends, exSendFailed, conQ, conRecv, conClosed>>
dspVars == <<phHist, foldIn, foldRate, foldOut, freqOut>>
iterVars == <<itLen, itFrameLen, itPos, itOut>>
inVars == <<inputClosed>>
wavVars == <<wavChannels, wavRate, wavCount, wavWritten, wavFlushedAt, wavLastLen, wavLastGap,
             wavPushes>>
vars == <<maxLen, channels, sampleRate, rings, sampleCount, hist, panicked, lastFrame,
          periodLen, periodStride, nextPeriodEnd, periodsOut, lastPeriod, gcRes,
          stepCalls, sink, pipeRes, lastTick, chainPc, chainInter, chainYield,
          accVars, outVars, capVars, exVars, dspVars, iterVars, inVars, wavVars>>

Min(a, b) == IF a < b THEN a ELSE b

\* ---------------------------------------------------------------------------
\* std::collections::VecDeque (ring of capacity Len(r.buf), head, len)
\* ---------------------------------------------------------------------------
\* VecDeque::new + reserve_exact(max_len): capacity exactly max_len, head 0
VecDequeWithCapacity(cap) == [buf |-> [i \in 1..cap |-> 0], head |-> 0, len |-> 0]

VecDequePopFront(r) ==
    IF r.len = 0 THEN r
    ELSE [r EXCEPT !.head = (r.head + 1) % Len(r.buf), !.len = r.len - 1]

\* VecDeque::as_slices: <<first segment, second segment>>
VecDequeAsSlices(r) ==
    LET cap == Len(r.buf)
        headLen == cap - r.head
    IN IF r.len = 0 THEN << <<>>, <<>> >>
       ELSE IF headLen >= r.len
            THEN << SubSeq(r.buf, r.head + 1, r.head + r.len), <<>> >>
            ELSE << SubSeq(r.buf, r.head + 1, cap), SubSeq(r.buf, 1, r.len - headLen) >>

\* Logical contents: first segment, then second segment
Contents(r) == VecDequeAsSlices(r)[1] \o VecDequeAsSlices(r)[2]

\* push_back. With max_len >= 1 SampleBuffer::push pops first when the ring
\* is full, so there is spare capacity. With max_len = 0 nothing is ever
\* popped (pop_front of an empty ring, then never len() = 0 again): the ring
\* grows, head stays 0 and the contents stay contiguous, which the grown
\* buffer keeps (extra capacity past the contents is not observable through
\* as_slices while head is 0).
VecDequePushBack(r, v) ==
    IF r.len = Len(r.buf)
    THEN [buf |-> Contents(r) \o <<v>>, head |-> 0, len |-> r.len + 1]
    ELSE [r EXCEPT !.buf[((r.head + r.len) % Len(r.buf)) + 1] = v, !.len = r.len + 1]

\* ---------------------------------------------------------------------------
\* SampleBuffer
\* ---------------------------------------------------------------------------
SampleBufferNew(nch, ml) == [c \in 0..(nch - 1) |-> VecDequeWithCapacity(ml)]

\* Deinterlace, dropping the newest sample (pop_back) when the ring is full
RECURSIVE DeinterlacePopBack(_, _, _, _, _)
DeinterlacePopBack(rs, samples, i, nch, ml) ==
    IF i >= Len(samples) THEN rs
    ELSE LET ch == i % nch
             popped == IF rs[ch].len = ml /\ ml > 0 THEN [rs[ch] EXCEPT !.len = @ - 1] ELSE rs[ch]
         IN DeinterlacePopBack([rs EXCEPT ![ch] = VecDequePushBack(popped, samples[i + 1])],
                               samples, i + 1, nch, ml)

\* Deinterlace reading the frame as planar (channel-major) instead of interleaved
RECURSIVE DeinterlacePlanar(_, _, _, _, _)
DeinterlacePlanar(rs, samples, i, nch, ml) ==
    IF i >= Len(samples) THEN rs
    ELSE LET ch == i \div (Len(samples) \div nch)
             popped == IF rs[ch].len = ml THEN VecDequePopFront(rs[ch]) ELSE rs[ch]
         IN DeinterlacePlanar([rs EXCEPT ![ch] = VecDequePushBack(popped, samples[i + 1])],
                              samples, i + 1, nch, ml)

\* The de-interlacing loop of SampleBuffer::push, from sample index i (0-based)
RECURSIVE Deinterlace(_, _, _, _, _)
Deinterlace(rs, samples, i, nch, ml) ==
    IF i >= Len(samples) THEN rs
    ELSE LET ch == i % nch
             popped == IF rs[ch].len = ml THEN VecDequePopFront(rs[ch]) ELSE rs[ch]
         IN Deinterlace([rs EXCEPT ![ch] = VecDequePushBack(popped, samples[i + 1])],
                        samples, i + 1, nch, ml)

\* The assertions without the sample-rate check
SampleBufferPushOkNoRate(f) ==
    /\ f.channels = channels
    /\ Len(f.samples) % channels = 0

\* The three assertions of SampleBuffer::push
SampleBufferPushOk(f) ==
    /\ f.channels = channels
    /\ f.rate = sampleRate
    /\ Len(f.samples) % channels = 0

SampleBufferLen == Min(sampleCount, maxLen)

SampleBufferOldestSampleIndex == sampleCount - SampleBufferLen

PeriodBufferRetainedStrict(npe, plen, sc, ml) == npe - plen > sc - Min(sc, ml)

\* The retention assertion of PeriodBuffer::push, on the state after the push
PeriodBufferRetained(npe, plen, sc, ml) == npe - plen >= sc - Min(sc, ml)

\* Ghost: the samples of channel c (0-based) in frame samples s, in order
ChannelSamples(s, nch, c) == [j \in 1..(Len(s) \div nch) |-> s[(j - 1) * nch + c + 1]]

\* A push that counts interleaved samples instead of per-channel samples
SampleBufferPushEffectUnscaled(f) ==
    /\ sampleCount' = sampleCount + Len(f.samples)
    /\ rings' = Deinterlace(rings, f.samples, 0, channels, maxLen)
    /\ hist' = [c \in DOMAIN hist |-> hist[c] \o ChannelSamples(f.samples, channels, c)]

\* The state change of a successful SampleBuffer::push
SampleBufferPushEffect(f) ==
    /\ sampleCount' = sampleCount + Len(f.samples) \div channels
    /\ rings' = Deinterlace(rings, f.samples, 0, channels, maxLen)
    /\ hist' = [c \in DOMAIN hist |-> hist[c] \o ChannelSamples(f.samples, channels, c)]

\* Input frames; each sample value is its position in the interleaved input
\* stream (distinct values, so any reordering or loss is visible)
Frames == [channels : 1..MaxChannels, rate : Rates,
           samples : {[i \in 1..n |-> sampleCount * channels + i] : n \in 0..MaxFrameLen}]

\* SampleBuffer::push(f): a failed assertion panics before any mutation
SampleBufferPush ==
    /\ ~panicked
    /\ \E f \in Frames :
        /\ sampleCount + Len(f.samples) \div channels <= MaxSampleCount
        /\ lastFrame' = f
        /\ IF SampleBufferPushOk(f)
           THEN /\ SampleBufferPushEffect(f)
                /\ panicked' = FALSE
           ELSE /\ panicked' = TRUE
                /\ UNCHANGED <<rings, sampleCount, hist>>
    /\ UNCHANGED <<maxLen, channels, sampleRate, pbVars, gcRes, pipeVars, chainVars>>
    /\ UNCHANGED <<accVars, outVars, capVars, exVars, dspVars, iterVars, inVars, wavVars>>

NoFrame == [channels |-> 0, rate |-> 0, samples |-> <<>>]

\* SampleBuffer::new(channels, sample_rate, max_len): any max_len, 0 included
InitSampleBuffer ==
    /\ maxLen \in 0..MaxLenBound
    /\ channels \in 1..MaxChannels
    /\ sampleRate = BufRate
    /\ rings = SampleBufferNew(channels, maxLen)
    /\ sampleCount = 0
    /\ hist = [c \in 0..(channels - 1) |-> <<>>]
    /\ panicked = FALSE
    /\ lastFrame = NoFrame

\* ---------------------------------------------------------------------------
\* FrameAccumulator (a Step from samples to Frames)
\* ---------------------------------------------------------------------------
MaxAccFrameLen == 3
MaxAccCalls == 6
AccVals == {0, 1}
\* The accumulator's sample rate (FrameAccumulator::new argument)
AccRate == 1

oldVars == <<bufVars, panicked, lastFrame, pbVars, gcRes, pipeVars, chainVars>>

NoAccFrame == [some |-> FALSE, channels |-> 0, rate |-> 0, samples |-> <<>>]

\* process checking the length before pushing the input (off by one)
FrameAccumulatorProcessLate ==
    /\ ~accPanicked
    /\ Len(accIn) < MaxAccCalls
    /\ \E x \in AccVals :
        /\ accIn' = Append(accIn, x)
        /\ IF Len(accSamples) = accFrameLen
           THEN /\ accLast' = [some |-> TRUE, channels |-> accChannels, rate |-> AccRate,
                               samples |-> accSamples]
                /\ accSamples' = <<x>>
                /\ accOut' = accOut \o accSamples
           ELSE /\ accLast' = NoAccFrame
                /\ accSamples' = Append(accSamples, x)
                /\ UNCHANGED accOut
    /\ UNCHANGED <<accFrameLen, accChannels, accResized, accPanicked, oldVars, outVars, capVars,
                   exVars, dspVars, iterVars, inVars, wavVars>>

\* FrameAccumulator::process(input): push; on reaching frame_len swap the
\* samples out into a Frame
FrameAccumulatorProcess ==
    /\ ~accPanicked
    /\ Len(accIn) < MaxAccCalls
    /\ \E x \in AccVals :
        LET s == Append(accSamples, x)
        IN /\ accIn' = Append(accIn, x)
           /\ IF Len(s) = accFrameLen
              THEN /\ accLast' = [some |-> TRUE, channels |-> accChannels, rate |-> AccRate,
                                  samples |-> s]
                   /\ accSamples' = <<>>
                   /\ accOut' = accOut \o s
              ELSE /\ accLast' = NoAccFrame
                   /\ accSamples' = s
                   /\ UNCHANGED accOut
    /\ UNCHANGED <<accFrameLen, accChannels, accResized, accPanicked, oldVars, outVars, capVars,
                   exVars, dspVars, iterVars, inVars, wavVars>>

\* FrameAccumulator::with_frame_len(new_len): asserts that no samples are
\* pending, then sets frame_len (any value: no check against channels)
FrameAccumulatorWithFrameLen ==
    /\ ~accPanicked
    /\ \E n \in 0..MaxAccFrameLen :
        IF accSamples = <<>>
        THEN /\ accFrameLen' = n
             /\ accResized' = (accResized \/ n # accFrameLen)
             /\ UNCHANGED accPanicked
        ELSE /\ accPanicked' = TRUE
             /\ UNCHANGED <<accFrameLen, accResized>>
    /\ UNCHANGED <<accChannels, accSamples, accIn, accOut, accLast, oldVars, outVars, capVars,
                   exVars, dspVars, iterVars, inVars, wavVars>>

InitAccIdle ==
    /\ accFrameLen = 0 /\ accChannels = 0 /\ accSamples = <<>>
    /\ accIn = <<>> /\ accOut = <<>> /\ accLast = NoAccFrame
    /\ accResized = FALSE /\ accPanicked = FALSE

\* FrameAccumulator::new(channels, sample_rate, frame_len): frame_len a
\* multiple of channels (asserted)
InitAccumulatorOnly ==
    /\ accChannels \in 1..MaxChannels
    /\ accFrameLen \in {n \in 1..MaxAccFrameLen : n % accChannels = 0}
    /\ accSamples = <<>> /\ accIn = <<>> /\ accOut = <<>> /\ accLast = NoAccFrame
    /\ accResized = FALSE /\ accPanicked = FALSE

\* ---------------------------------------------------------------------------
\* OutputDevice (producer side) and FrameReceiver (output callback side)
\* ---------------------------------------------------------------------------
\* OutputDevice::MAX_FRAME_QUEUE_LEN
MaxFrameQueueLen == 4
MaxOutFrames == 5
MaxOutFrameLen == 2
MaxDst == 3

NoFill == [n |-> 0, res |-> "none", count |-> 0, data |-> <<>>, avail |-> 0, closed |-> FALSE]

\* No fill_buffer call in progress; during a call: buf.len() n, satisfied sat,
\* the samples copied so far, and (ghost) the samples pending and whether the
\* sender was gone when the call began
NoCall == [pc |-> "idle", n |-> 0, sat |-> 0, data |-> <<>>, avail |-> 0, closed |-> FALSE]

RECURSIVE Flatten(_)
Flatten(q) == IF q = <<>> THEN <<>> ELSE Head(q) \o Flatten(Tail(q))

\* Samples still to be played: the remainder of cur_frame, then the queue
Pending(cur, cs, q) ==
    (IF cs = -1 THEN <<>> ELSE SubSeq(cur, cs + 1, Len(cur))) \o Flatten(q)

\* cur_sample left at the slice end even at the end of the frame
NextCurSampleKeepEnd(e, len) == e

\* next_slice_from_current's update: Some(end) before the end of the frame,
\* else None (-1)
NextCurSample(e, len) == IF e < len THEN e ELSE -1

\* next_slice_from_current leaving cur_sample at None after a partial slice
NextSliceFromCurrentDrop(cur, cs, limit) ==
    LET e == Min(cs + limit, Len(cur))
    IN [ok |-> cs < e, slice |-> SubSeq(cur, cs + 1, e), cs |-> -1]

\* FrameReceiver::next_slice_from_current on cur_frame from cur_sample, up to
\* max_len samples: the slice and the new cur_sample (-1 for None)
NextSliceFromCurrent(cur, cs, limit) ==
    LET e == Min(cs + limit, Len(cur))
    IN [ok |-> cs < e, slice |-> SubSeq(cur, cs + 1, e),
        cs |-> NextCurSample(e, Len(cur))]

\* A closed channel reported as Ok(satisfied) once something was copied
ClosedResultPartialOk(sat) == IF sat > 0 THEN "ok" ELSE "eos"

\* next_slice's Err(EndOfStream) on TryRecvError::Closed, which fill_buffer
\* returns as is, whatever it already copied
ClosedResult(sat) == "eos"

\* One iteration of fill_buffer's loop reporting end-of-stream as soon as the
\* sender is gone, before draining the queue
FillStepClosedFirst(q, cur, cs, closed, n, sat) ==
    LET Done(r) == [done |-> TRUE, res |-> r, q |-> q, cur |-> cur, cs |-> cs, slice |-> <<>>]
        Copied(q2, cur2, sl) ==
            [done |-> sat + Len(sl.slice) >= n, res |-> "ok", q |-> q2, cur |-> cur2,
             cs |-> sl.cs, slice |-> sl.slice]
    IN IF sat >= n THEN Done("ok")
       ELSE IF cs # -1
            THEN LET sl == NextSliceFromCurrent(cur, cs, n - sat)
                 IN IF ~sl.ok THEN Done("panic") ELSE Copied(q, cur, sl)
            ELSE IF closed THEN Done("eos")
                 ELSE IF q # <<>>
                      THEN LET sl == NextSliceFromCurrent(Head(q), 0, n - sat)
                           IN IF ~sl.ok
                              THEN [done |-> TRUE, res |-> "panic", q |-> Tail(q),
                                    cur |-> Head(q), cs |-> 0, slice |-> <<>>]
                              ELSE Copied(Tail(q), Head(q), sl)
                      ELSE Done("ok")

\* One iteration of FrameReceiver::fill_buffer's loop with buf.len() = n after
\* sat samples, next_slice inlined: the slice copied, the receiver's new
\* state, and whether the call returns (res "ok", "eos" or "panic", a failed
\* assertion). try_recv reports Closed only on an empty closed channel. A
\* received frame is stored in cur_frame with cur_sample Some(0) before
\* next_slice_from_current asserts start < end. The loop's satisfied <
\* buf.len() test follows the copy.
FillStep(q, cur, cs, closed, n, sat) ==
    LET Done(r) == [done |-> TRUE, res |-> r, q |-> q, cur |-> cur, cs |-> cs, slice |-> <<>>]
        Copied(q2, cur2, sl) ==
            [done |-> sat + Len(sl.slice) >= n, res |-> "ok", q |-> q2, cur |-> cur2,
             cs |-> sl.cs, slice |-> sl.slice]
    IN IF sat >= n THEN Done("ok")
       ELSE IF cs # -1
            THEN LET sl == NextSliceFromCurrent(cur, cs, n - sat)
                 IN IF ~sl.ok THEN Done("panic") ELSE Copied(q, cur, sl)
            ELSE IF q # <<>>
                 THEN LET sl == NextSliceFromCurrent(Head(q), 0, n - sat)
                      IN IF ~sl.ok
                         THEN [done |-> TRUE, res |-> "panic", q |-> Tail(q),
                               cur |-> Head(q), cs |-> 0, slice |-> <<>>]
                         ELSE Copied(Tail(q), Head(q), sl)
                 ELSE IF closed THEN Done(ClosedResult(sat)) ELSE Done("ok")

\* The output callback calls fill_buffer on a device buffer of 0..MaxDst
\* samples
OutputFillStart ==
    /\ ~outRxDropped
    /\ fill.pc = "idle"
    /\ \E n \in 0..MaxDst :
        fill' = [pc |-> "busy", n |-> n, sat |-> 0, data |-> <<>>,
                 avail |-> Len(Pending(outCur, outCurSample, outQ)), closed |-> outSenderClosed]
    /\ UNCHANGED <<outQ, outCur, outCurSample, outSenderClosed, outRxDropped, prodPc, prodFrame,
                   prodRes, outPushed, outWritten, outGen, lastFill,
                   oldVars, accVars, capVars, exVars, dspVars, iterVars, inVars, wavVars>>

\* One iteration of fill_buffer's loop: one next_slice (at most one try_recv)
\* and its copy into buf; the producer may push between iterations
OutputFillStep ==
    /\ fill.pc = "busy"
    /\ LET r == FillStep(outQ, outCur, outCurSample, outSenderClosed, fill.n, fill.sat)
           sat == fill.sat + Len(r.slice)
           data == fill.data \o r.slice
       IN /\ outQ' = r.q
          /\ outCur' = r.cur
          /\ outCurSample' = r.cs
          /\ outWritten' = outWritten \o r.slice
          /\ IF r.done
             THEN /\ fill' = NoCall
                  /\ lastFill' = [n |-> fill.n, res |-> r.res, count |-> sat, data |-> data,
                                  avail |-> fill.avail, closed |-> fill.closed]
             ELSE /\ fill' = [fill EXCEPT !.sat = sat, !.data = data]
                  /\ UNCHANGED lastFill
    /\ UNCHANGED <<outSenderClosed, outRxDropped, prodPc, prodFrame, prodRes, outPushed, outGen,
                   oldVars, accVars, capVars, exVars, dspVars, iterVars, inVars, wavVars>>

\* A bounded(MaxFrameQueueLen + 1) channel
OutputPushOverfull ==
    /\ prodPc = "idle"
    /\ ~outSenderClosed
    /\ outGen < MaxOutFrames
    /\ \E n \in 1..MaxOutFrameLen :
        LET f == [i \in 1..n |-> outGen * 10 + i]
        IN /\ outGen' = outGen + 1
           /\ IF outRxDropped
              THEN /\ prodRes' = "DeviceClosed"
                   /\ UNCHANGED <<prodPc, prodFrame, outQ, outPushed>>
              ELSE IF Len(outQ) < MaxFrameQueueLen + 1
                   THEN /\ outQ' = Append(outQ, f)
                        /\ outPushed' = outPushed \o f
                        /\ prodRes' = "Ok"
                        /\ UNCHANGED <<prodPc, prodFrame>>
                   ELSE /\ prodPc' = "blocked"
                        /\ prodFrame' = f
                        /\ UNCHANGED <<prodRes, outQ, outPushed>>
    /\ UNCHANGED <<outCur, outCurSample, outSenderClosed, outRxDropped, outWritten, lastFill, fill,
                   oldVars, accVars, capVars, exVars, dspVars, iterVars, inVars, wavVars>>

\* OutputDevice::push(frame): send_blocking; fails if the receiver is gone,
\* waits while the queue is full
OutputPush ==
    /\ prodPc = "idle"
    /\ ~outSenderClosed
    /\ outGen < MaxOutFrames
    /\ \E n \in 1..MaxOutFrameLen :
        LET f == [i \in 1..n |-> outGen * 10 + i]
        IN /\ outGen' = outGen + 1
           /\ IF outRxDropped
              THEN /\ prodRes' = "DeviceClosed"
                   /\ UNCHANGED <<prodPc, prodFrame, outQ, outPushed>>
              ELSE IF Len(outQ) < MaxFrameQueueLen
                   THEN /\ outQ' = Append(outQ, f)
                        /\ outPushed' = outPushed \o f
                        /\ prodRes' = "Ok"
                        /\ UNCHANGED <<prodPc, prodFrame>>
                   ELSE /\ prodPc' = "blocked"
                        /\ prodFrame' = f
                        /\ UNCHANGED <<prodRes, outQ, outPushed>>
    /\ UNCHANGED <<outCur, outCurSample, outSenderClosed, outRxDropped, outWritten, lastFill, fill,
                   oldVars, accVars, capVars, exVars, dspVars, iterVars, inVars, wavVars>>

\* The blocked send_blocking wakes when a slot frees or the receiver is gone
OutputPushResume ==
    /\ prodPc = "blocked"
    /\ outRxDropped \/ Len(outQ) < MaxFrameQueueLen
    /\ prodPc' = "idle"
    /\ IF outRxDropped
       THEN /\ prodRes' = "DeviceClosed"
            /\ UNCHANGED <<outQ, outPushed>>
       ELSE /\ outQ' = Append(outQ, prodFrame)
            /\ outPushed' = outPushed \o prodFrame
            /\ prodRes' = "Ok"
    /\ UNCHANGED <<prodFrame, outCur, outCurSample, outSenderClosed, outRxDropped, outWritten,
                   outGen, lastFill, fill, oldVars, accVars, capVars, exVars, dspVars, iterVars, inVars, wavVars>>

\* Dropping the sender (the OutputDevice) while no push is in progress
OutputSenderDrop ==
    /\ prodPc = "idle"
    /\ ~outSenderClosed
    /\ outSenderClosed' = TRUE
    /\ UNCHANGED <<outQ, outCur, outCurSample, outRxDropped, prodPc, prodFrame, prodRes,
                   outPushed, outWritten, outGen, lastFill, fill, oldVars, accVars, capVars, exVars, dspVars, iterVars, inVars, wavVars>>

\* Dropping the output stream, and with it the callback's receiver, between
\* callbacks
OutputReceiverDrop ==
    /\ ~outRxDropped
    /\ fill.pc = "idle"
    /\ outRxDropped' = TRUE
    /\ UNCHANGED <<outQ, outCur, outCurSample, outSenderClosed, prodPc, prodFrame, prodRes,
                   outPushed, outWritten, outGen, lastFill, fill, oldVars, accVars, capVars, exVars, dspVars, iterVars, inVars, wavVars>>

InitOutIdle ==
    /\ outQ = <<>> /\ outCur = <<>> /\ outCurSample = -1
    /\ outSenderClosed = FALSE /\ outRxDropped = FALSE
    /\ prodPc = "idle" /\ prodFrame = <<>> /\ prodRes = "none"
    /\ outPushed = <<>> /\ outWritten = <<>> /\ outGen = 0 /\ lastFill = NoFill
    /\ fill = NoCall

\* ---------------------------------------------------------------------------
\* InputDevice: the capture callback and the reader of its channel
\* ---------------------------------------------------------------------------
\* executor::CHANNEL_MAX
ChannelMax == 16
MaxCallbacks == 18

\* A sender that waits for room (send_blocking) unless the receiver is gone
SendBlockingReady(q, gone) == gone \/ Len(q) < ChannelMax

\* try_send never waits: it completes whatever the queue and the receiver
TrySendReady(q, gone) == TRUE

\* A capture callback that, on a full queue, evicts the oldest Frame instead
CaptureCallbackDropOldest ==
    /\ capCount < MaxCallbacks
    /\ capCount' = capCount + 1
    /\ IF capRxGone
       THEN /\ capDropped' = capDropped \cup {capCount + 1}
            /\ UNCHANGED capQ
       ELSE IF Len(capQ) = ChannelMax
            THEN /\ capQ' = Append(Tail(capQ), capCount + 1)
                 /\ capDropped' = capDropped \cup {Head(capQ)}
            ELSE /\ capQ' = Append(capQ, capCount + 1)
                 /\ UNCHANGED capDropped
    /\ UNCHANGED <<capRecv, capRxGone, oldVars, accVars, outVars, exVars, dspVars, iterVars, inVars, wavVars>>

\* The input callback: try_send of a new Frame (numbered by callback); on a
\* full or closed queue the Frame is dropped (logged)
CaptureCallback ==
    /\ capCount < MaxCallbacks
    /\ TrySendReady(capQ, capRxGone)
    /\ capCount' = capCount + 1
    /\ IF capRxGone \/ Len(capQ) = ChannelMax
       THEN /\ capDropped' = capDropped \cup {capCount + 1}
            /\ UNCHANGED capQ
       ELSE /\ capQ' = Append(capQ, capCount + 1)
            /\ UNCHANGED capDropped
    /\ UNCHANGED <<capRecv, capRxGone, oldVars, accVars, outVars, exVars, dspVars, iterVars, inVars, wavVars>>

\* InputDevice::next: recv_blocking of the next queued Frame
CaptureRecv ==
    /\ ~capRxGone
    /\ capQ # <<>>
    /\ capRecv' = Append(capRecv, Head(capQ))
    /\ capQ' = Tail(capQ)
    /\ UNCHANGED <<capCount, capDropped, capRxGone, oldVars, accVars, outVars, exVars, dspVars, iterVars, inVars, wavVars>>

\* Dropping the InputDevice (its receiver)
CaptureReceiverDrop ==
    /\ ~capRxGone
    /\ capRxGone' = TRUE
    /\ UNCHANGED <<capQ, capCount, capDropped, capRecv, oldVars, accVars, outVars, exVars, dspVars, iterVars, inVars, wavVars>>

InitCapIdle ==
    /\ capQ = <<>> /\ capCount = 0 /\ capDropped = {} /\ capRecv = <<>> /\ capRxGone = FALSE

\* ---------------------------------------------------------------------------
\* Executor: the audio processing thread and its consumer
\* ---------------------------------------------------------------------------
\* PeriodBuffer period_len = period_stride = FFT width (8192 in the code)
ExecPeriodLen == 2
ExecChannels == 2
\* SampleBuffer max_len = 2 * sample_rate
ExecSampleRate == 3
MaxExecFrameLen == 6
MaxExecReads == 4

ExecMaxLen == 2 * ExecSampleRate

\* FFT::new(8192): the FFT width equals the period length
ExecFFTWidth == ExecPeriodLen

\* Instants are kept as sample numbers: Instant::from_sample_num divides by the
\* stream's fixed sample rate, so two Instants are equal iff their sample
\* numbers are.
PeriodStartTime(start) == start
PeriodEndTime(start) == start + ExecPeriodLen

\* FFT::transform: end_time is period.end_time()
FFTMsg(start) == [kind |-> "FFTResult", start |-> start, width |-> ExecFFTWidth,
                  n |-> ExecChannels, time |-> PeriodEndTime(start)]
\* Executor::process: RMSLevels { time: p.start_time(), .. }
RMSMsg(start) == [kind |-> "RMSLevels", start |-> start, width |-> 0, n |-> ExecChannels,
                  time |-> PeriodStartTime(start)]
ClosedMsg == [kind |-> "AudioStreamClosed", start |-> -1, width |-> 0, n |-> 0, time |-> -1]

\* A drain that takes at most one Period per frame (if instead of while)
ExecDrainOnce(sc, npe) ==
    IF npe <= sc
    THEN [msgs |-> <<FFTMsg(npe - ExecPeriodLen), RMSMsg(npe - ExecPeriodLen)>>,
          npe |-> npe + ExecPeriodLen]
    ELSE [msgs |-> <<>>, npe |-> npe]

\* The drain loop of Executor::process: while let Some(p) = periods.next(),
\* an FFTResult then an RMSLevels message per Period
RECURSIVE ExecDrain(_, _)
ExecDrain(sc, npe) ==
    IF npe <= sc
    THEN LET rest == ExecDrain(sc, npe + ExecPeriodLen)
         IN [msgs |-> <<FFTMsg(npe - ExecPeriodLen), RMSMsg(npe - ExecPeriodLen)>> \o rest.msgs,
             npe |-> rest.npe]
    ELSE [msgs |-> <<>>, npe |-> npe]

\* Executor::run, Ok(frame) arm: Executor::process (WAV write, PeriodBuffer
\* push with its retention assertion, drain) then the sends
ExecRead ==
    /\ exPc = "read"
    /\ ~inputClosed
    /\ exReads < MaxExecReads
    /\ \E f \in 1..MaxExecFrameLen :
        LET sc == exSc + f
            d == ExecDrain(sc, exNpe)
        IN /\ exReads' = exReads + 1
           /\ exWav' = exWav + f
           /\ exSc' = sc
           /\ IF PeriodBufferRetained(exNpe, ExecPeriodLen, sc, ExecMaxLen)
              THEN /\ exNpe' = d.npe
                   /\ exPending' = d.msgs
                   /\ exPc' = IF d.msgs = <<>> THEN "read" ELSE "send"
              ELSE /\ exPc' = "panic"
                   /\ UNCHANGED <<exNpe, exPending>>
    /\ UNCHANGED <<exSent, exInputFailed, exClosedSends, exSendFailed, conQ, conRecv, conClosed,
                   oldVars, accVars, outVars, capVars, dspVars, iterVars, inVars, wavVars>>

\* Executor::run: sending the pending messages one by one (send_blocking)
ExecSendSkip ==
    /\ exPc = "send"
    /\ conClosed \/ Len(conQ) < ChannelMax
    /\ exPending' = Tail(exPending)
    /\ exPc' = IF Tail(exPending) = <<>> THEN "read" ELSE "send"
    /\ IF conClosed
       THEN /\ exSendFailed' = TRUE
            /\ UNCHANGED <<conQ, exSent>>
       ELSE /\ conQ' = Append(conQ, Head(exPending))
            /\ exSent' = Append(exSent, Head(exPending))
            /\ UNCHANGED exSendFailed
    /\ UNCHANGED <<exSc, exNpe, exWav, exReads, exInputFailed, exClosedSends, conRecv, conClosed,
                   oldVars, accVars, outVars, capVars, dspVars, iterVars, inVars, wavVars>>

ExecSend ==
    /\ exPc = "send"
    /\ conClosed \/ Len(conQ) < ChannelMax
    /\ IF conClosed
       THEN /\ exPc' = "exit"
            /\ exSendFailed' = TRUE
            /\ UNCHANGED <<conQ, exSent, exPending>>
       ELSE /\ conQ' = Append(conQ, Head(exPending))
            /\ exSent' = Append(exSent, Head(exPending))
            /\ exPending' = Tail(exPending)
            /\ exPc' = IF Tail(exPending) = <<>> THEN "read" ELSE "send"
            /\ UNCHANGED exSendFailed
    /\ UNCHANGED <<exSc, exNpe, exWav, exReads, exInputFailed, exClosedSends, conRecv, conClosed,
                   oldVars, accVars, outVars, capVars, dspVars, iterVars, inVars, wavVars>>

\* The Err arm without the return
ExecReadFailNoExit ==
    /\ exPc = "read"
    /\ inputClosed
    /\ conClosed \/ Len(conQ) < ChannelMax
    /\ exReads' = exReads + 1
    /\ exInputFailed' = TRUE
    /\ exClosedSends' = exClosedSends + 1
    /\ IF conClosed THEN UNCHANGED <<conQ, exSent>>
       ELSE /\ conQ' = Append(conQ, ClosedMsg)
            /\ exSent' = Append(exSent, ClosedMsg)
    /\ UNCHANGED <<exPc, exPending, exSc, exNpe, exWav, exSendFailed, conRecv, conClosed,
                   oldVars, accVars, outVars, capVars, dspVars, iterVars, inVars, wavVars>>

\* The Err arm without the AudioStreamClosed message
ExecReadFailSilent ==
    /\ exPc = "read"
    /\ inputClosed
    /\ exReads' = exReads + 1
    /\ exInputFailed' = TRUE
    /\ exPc' = "exit"
    /\ UNCHANGED <<exPending, exSc, exNpe, exWav, exSent, exClosedSends, exSendFailed,
                   conQ, conRecv, conClosed, oldVars, accVars, outVars, capVars, dspVars, iterVars, inVars, wavVars>>

\* Executor::run, Err arm: send AudioStreamClosed (result ignored) and return
ExecReadFail ==
    /\ exPc = "read"
    /\ inputClosed
    /\ conClosed \/ Len(conQ) < ChannelMax
    /\ exReads' = exReads + 1
    /\ exInputFailed' = TRUE
    /\ exClosedSends' = exClosedSends + 1
    /\ IF conClosed THEN UNCHANGED <<conQ, exSent>>
       ELSE /\ conQ' = Append(conQ, ClosedMsg)
            /\ exSent' = Append(exSent, ClosedMsg)
    /\ exPc' = "exit"
    /\ UNCHANGED <<exPending, exSc, exNpe, exWav, exSendFailed, conRecv, conClosed,
                   oldVars, accVars, outVars, capVars, dspVars, iterVars, inVars, wavVars>>

\* The consumer (UI thread) receiving a message
ConsumerRecv ==
    /\ ~conClosed
    /\ conQ # <<>>
    /\ conRecv' = Append(conRecv, Head(conQ))
    /\ conQ' = Tail(conQ)
    /\ UNCHANGED <<exPc, exPending, exSc, exNpe, exWav, exSent, exReads, exInputFailed,
                   exClosedSends, exSendFailed, conClosed, oldVars, accVars, outVars, capVars, dspVars, iterVars, inVars, wavVars>>

\* The consumer dropping its receiver
ConsumerClose ==
    /\ ~conClosed
    /\ conClosed' = TRUE
    /\ UNCHANGED <<exPc, exPending, exSc, exNpe, exWav, exSent, exReads, exInputFailed,
                   exClosedSends, exSendFailed, conQ, conRecv, oldVars, accVars, outVars, capVars, dspVars, iterVars, inVars, wavVars>>

\* The input adapter (InputDevice) starts reporting closure: every later
\* read returns Err
InputClose ==
    /\ ~inputClosed
    /\ inputClosed' = TRUE
    /\ UNCHANGED <<oldVars, accVars, outVars, capVars, exVars, dspVars, iterVars, wavVars>>

InitExIdle ==
    /\ inputClosed = FALSE
    /\ exPc = "read" /\ exPending = <<>> /\ exSc = 0 /\ exNpe = ExecPeriodLen /\ exWav = 0
    /\ exSent = <<>> /\ exReads = 0 /\ exInputFailed = FALSE /\ exClosedSends = 0
    /\ exSendFailed = FALSE /\ conQ = <<>> /\ conRecv = <<>> /\ conClosed = FALSE

\* ---------------------------------------------------------------------------
\* dsp: PolarFFT phase unwrapping, folding, FoldedFFT frequencies
\* ---------------------------------------------------------------------------
\* Phases are integer multiples of PI/4, kept in units of PI/4
PI == 4
MaxBins == 3
MaxPhase == 13
MaxUnwraps == 2
PhaseUnits == -MaxPhase..MaxPhase

\* diff = cur - prev_wrapped, then one adjustment: -2*PI if diff > PI, +2*PI
\* if diff < -PI
WrapDiff(raw) == IF raw > PI THEN raw - 2 * PI ELSE IF raw < -PI THEN raw + 2 * PI ELSE raw

\* The adjusted differences the f32 computation can give for an exact step
\* raw. The phases are f32 values near multiples of PI/4, so a step of
\* exactly +-PI is computed within rounding of the f32 PI and may fall on
\* either side of the comparison.
WrapDiffs(raw) ==
    IF raw = PI \/ raw = -PI THEN {PI, -PI} ELSE {WrapDiff(raw)}

\* unwrap_phase adjusting by PI instead of 2*PI
RECURSIVE UnwrapPhaseFromHalfTurn(_, _, _)
UnwrapPhaseFromHalfTurn(ph, prevWrapped, prev) ==
    IF ph = <<>> THEN {<<>>}
    ELSE LET raw == Head(ph) - prevWrapped
             diffs == IF raw > PI THEN {raw - PI}
                      ELSE IF raw < -PI THEN {raw + PI}
                      ELSE IF raw = PI \/ raw = -PI THEN {PI, -PI} ELSE {raw}
         IN UNION {{<<prev + d>> \o r : r \in UnwrapPhaseFromHalfTurn(Tail(ph), Head(ph), prev + d)} :
                   d \in diffs}

\* PolarFFT::unwrap_phase on the phases, from prev_wrapped and prev: the set
\* of results the f32 arithmetic can give
RECURSIVE UnwrapPhaseFrom(_, _, _)
UnwrapPhaseFrom(ph, prevWrapped, prev) ==
    IF ph = <<>> THEN {<<>>}
    ELSE UNION {{<<prev + d>> \o r : r \in UnwrapPhaseFrom(Tail(ph), Head(ph), prev + d)} :
                d \in WrapDiffs(Head(ph) - prevWrapped)}

\* unwrap_phase adjusting by PI instead of 2*PI
UnwrapPhaseHalfTurn(ph) == UnwrapPhaseFromHalfTurn(ph, 0, 0)

\* prev_wrapped and prev start at 0
UnwrapPhase(ph) == UnwrapPhaseFrom(ph, 0, 0)

\* Calling unwrap_phase on the PolarFFT once more
UnwrapPhaseCall ==
    /\ Len(phHist) <= MaxUnwraps
    /\ \E r \in UnwrapPhase(phHist[Len(phHist)]) : phHist' = Append(phHist, r)
    /\ UNCHANGED <<foldIn, foldRate, foldOut, freqOut, oldVars, accVars, outVars, capVars,
                   exVars, iterVars, inVars, wavVars>>

MaxFoldLen == 5
FoldMags == {1, 2}
FoldPhases == {0, 1}
FoldRates == {2, 3}

\* The folded length rounded up for odd n
FoldedLenCeil(n) == (n + 1) \div 2 + 1

\* res.values.truncate(n / 2 + 1)
FoldedLen(n) == n \div 2 + 1

\* into_folded with the Nyquist test on odd n, as its comment reads
IntoFoldedOddNyquist(vals, rate) ==
    LET n == Len(vals)
        fl == Min(n, FoldedLen(n))
        Norm(i) == IF i = 0 THEN [num |-> vals[i + 1].mag, den |-> n]
                   ELSE IF i = fl - 1 /\ n % 2 = 1 THEN [num |-> vals[i + 1].mag, den |-> n]
                   ELSE [num |-> 2 * vals[i + 1].mag, den |-> n]
    IN [done |-> TRUE, rate |-> rate, unfolded |-> n,
        values |-> [i \in 1..fl |-> [num |-> Norm(i - 1).num, den |-> Norm(i - 1).den,
                                     ph |-> vals[i].ph]]]

\* PolarFFT::into_folded: keep n / 2 + 1 values, then normalise magnitudes
\* (exact rationals num / den); phases are left alone
IntoFolded(vals, rate) ==
    LET n == Len(vals)
        fl == Min(n, FoldedLen(n))
        Norm(i) == IF i = 0 THEN [num |-> vals[i + 1].mag, den |-> n]
                   ELSE IF i = fl - 1 /\ n % 2 = 0 THEN [num |-> vals[i + 1].mag, den |-> n]
                   ELSE [num |-> 2 * vals[i + 1].mag, den |-> n]
    IN [done |-> TRUE, rate |-> rate, unfolded |-> n,
        values |-> [i \in 1..fl |-> [num |-> Norm(i - 1).num, den |-> Norm(i - 1).den,
                                     ph |-> vals[i].ph]]]

IntoFoldedCall ==
    /\ ~foldOut.done
    /\ foldOut' = IntoFolded(foldIn, foldRate)
    /\ UNCHANGED <<phHist, foldIn, foldRate, freqOut, oldVars, accVars, outVars, capVars,
                   exVars, iterVars, inVars, wavVars>>

\* FoldedFFT::frequencies (i * sample_rate / unfolded_length for each value)
\* and FoldedFFT::nyquist_frequency (sample_rate / 2), as exact rationals
Frequencies(ff) ==
    [done |-> TRUE,
     freqs |-> [i \in 1..Len(ff.values) |-> [num |-> (i - 1) * ff.rate, den |-> ff.unfolded]],
     nyq |-> [num |-> ff.rate, den |-> 2]]

FrequenciesCall ==
    /\ foldOut.done
    /\ ~freqOut.done
    /\ freqOut' = Frequencies(foldOut)
    /\ UNCHANGED <<phHist, foldIn, foldRate, foldOut, oldVars, accVars, outVars, capVars,
                   exVars, iterVars, inVars, wavVars>>

InitDspIdle ==
    /\ phHist = <<<<>>>> /\ foldIn = <<>> /\ foldRate = 1
    /\ foldOut = [done |-> FALSE] /\ freqOut = [done |-> FALSE]

\* ---------------------------------------------------------------------------
\* IteratorInput: frames of frame_len samples from a single-channel iterator
\* ---------------------------------------------------------------------------
MaxIterLen == 7
MaxIterFrameLen == 3
MaxIterCalls == 4

\* next returning the samples of a short last frame as a frame
IteratorInputNextPartial ==
    /\ Len(itOut) < MaxIterCalls
    /\ LET take == Min(itFrameLen, itLen - itPos)
       IN /\ itPos' = itPos + take
          /\ itOut' = Append(itOut,
                IF take > 0
                THEN [ok |-> TRUE, samples |-> [i \in 1..take |-> itPos + i - 1],
                      fl |-> itFrameLen, pos |-> itPos]
                ELSE [ok |-> FALSE, samples |-> <<>>, fl |-> itFrameLen, pos |-> itPos])
    /\ UNCHANGED <<itLen, itFrameLen, oldVars, accVars, outVars, capVars, exVars, dspVars, inVars, wavVars>>

\* IteratorInput::next (try_next inlined). The iterator is fused, as the type
\* documents: once exhausted it yields nothing more. Sample i of the
\* iterator is the value i.
IteratorInputNext ==
    /\ Len(itOut) < MaxIterCalls
    /\ LET take == Min(itFrameLen, itLen - itPos)
       IN /\ itPos' = itPos + take
          /\ itOut' = Append(itOut,
                IF take = itFrameLen
                THEN [ok |-> TRUE, samples |-> [i \in 1..itFrameLen |-> itPos + i - 1],
                      fl |-> itFrameLen, pos |-> itPos]
                ELSE [ok |-> FALSE, samples |-> <<>>, fl |-> itFrameLen, pos |-> itPos])
    /\ UNCHANGED <<itLen, itFrameLen, oldVars, accVars, outVars, capVars, exVars, dspVars, inVars, wavVars>>

\* IteratorInput::with_frame_len(new_len): any new_len, at any time
IteratorInputWithFrameLen ==
    /\ Len(itOut) < MaxIterCalls
    /\ \E n \in 0..MaxIterFrameLen : itFrameLen' = n
    /\ UNCHANGED <<itLen, itPos, itOut, oldVars, accVars, outVars, capVars, exVars, dspVars, inVars, wavVars>>

InitIterIdle ==
    /\ itLen = 0 /\ itFrameLen = 1 /\ itPos = 0 /\ itOut = <<>>

\* ---------------------------------------------------------------------------
\* WavWriter: the debug sink of every input sample, flushed periodically
\* ---------------------------------------------------------------------------
MaxWavPushes == 5
MaxWavFrame == 2
WavRates == {2, 3}
WavChannelCounts == {1, 2}

\* Counting each frame as one sample per channel
WavCountIncrementPerChannel(len, nch) == len \div nch

\* unflushed_count += frame.samples.len() (interleaved samples)
WavCountIncrement(len, nch) == len

\* WavWriter::push of a frame of n samples per channel (interleaved, so
\* n * channels samples; the channel and rate assertions hold): write every
\* sample, add to unflushed_count, and flush and reset it once it exceeds
\* flush_every = sample_rate. Write and flush errors are not modelled (the
\* Executor panics on them).
WavWriterPush ==
    /\ wavPushes < MaxWavPushes
    /\ \E n \in 0..MaxWavFrame :
        LET len == n * wavChannels
            c == wavCount + WavCountIncrement(len, wavChannels)
        IN /\ wavWritten' = wavWritten + len
           /\ wavLastLen' = len
           /\ wavPushes' = wavPushes + 1
           /\ IF c > wavRate
              THEN /\ wavCount' = 0
                   /\ wavFlushedAt' = wavWritten + len
                   /\ wavLastGap' = wavWritten + len - wavFlushedAt
              ELSE /\ wavCount' = c
                   /\ UNCHANGED <<wavFlushedAt, wavLastGap>>
    /\ UNCHANGED <<wavChannels, wavRate, oldVars, accVars, outVars, capVars, exVars, dspVars,
                   iterVars, inVars>>

InitWavIdle ==
    /\ wavChannels = 1 /\ wavRate = 1 /\ wavCount = 0 /\ wavWritten = 0
    /\ wavFlushedAt = 0 /\ wavLastLen = 0 /\ wavLastGap = -1 /\ wavPushes = 0

\* The buffer state of the specifications that do not use a SampleBuffer
InitSampleBufferIdle ==
    /\ maxLen = 1 /\ channels = 1 /\ sampleRate = BufRate
    /\ rings = SampleBufferNew(1, 1) /\ sampleCount = 0 /\ hist = [c \in 0..0 |-> <<>>]
    /\ panicked = FALSE /\ lastFrame = NoFrame

NonePeriod == [some |-> FALSE, k |-> 0, start |-> 0, len |-> 0, slices |-> <<>>]
NoQuery == [done |-> FALSE, channel |-> 0, start |-> 0, len |-> 0,
            res |-> [panic |-> FALSE, s0 |-> <<>>, s1 |-> <<>>]]
NoTick == [read |-> FALSE, outs |-> <<>>, oks |-> <<>>, attempts |-> 0]

InitPeriodBufferIdle ==
    /\ periodLen = 0 /\ periodStride = 0 /\ nextPeriodEnd = 0
    /\ periodsOut = 0 /\ lastPeriod = NonePeriod
InitPipelineIdle ==
    /\ stepCalls = 0 /\ sink = <<>> /\ pipeRes = "none" /\ lastTick = NoTick
InitChainIdle ==
    /\ chainPc = "idle" /\ chainInter = <<>> /\ chainYield = <<>>
    /\ InitAccIdle /\ InitOutIdle /\ InitCapIdle /\ InitExIdle /\ InitWavIdle
    /\ InitDspIdle /\ InitIterIdle

InitSampleBufferSpec ==
    /\ InitSampleBuffer
    /\ InitPeriodBufferIdle /\ gcRes = NoQuery
    /\ InitPipelineIdle /\ InitChainIdle

NextSampleBuffer == SampleBufferPush

SpecSampleBuffer == InitSampleBufferSpec /\ [][NextSampleBuffer]_vars

\* get_channel without re-basing the end of a straddling window onto the
\* second segment
PeriodGetChannelNoRebase(rs, sc, ml, c, start, l) ==
    LET segs == VecDequeAsSlices(rs[c])
        first == segs[1]
        second == segs[2]
        bufLen == Min(sc, ml)
        lenToBufferEnd == sc - start
        Panic == [panic |-> TRUE, s0 |-> <<>>, s1 |-> <<>>]
        Slice(v, a, b) == SubSeq(v, a + 1, b)
        SliceOk(v, a, b) == a <= b /\ b <= Len(v)
    IN IF lenToBufferEnd < 0 \/ bufLen < lenToBufferEnd THEN Panic
       ELSE
        LET st == bufLen - lenToBufferEnd
            en == st + l
        IN IF st < Len(first)
           THEN IF en <= Len(first)
                THEN [panic |-> FALSE, s0 |-> Slice(first, st, en), s1 |-> <<>>]
                ELSE IF SliceOk(second, 0, en)
                     THEN [panic |-> FALSE, s0 |-> Slice(first, st, Len(first)),
                           s1 |-> Slice(second, 0, en)]
                     ELSE Panic
           ELSE IF SliceOk(second, st - Len(first), en - Len(first))
                THEN [panic |-> FALSE,
                      s0 |-> Slice(second, st - Len(first), en - Len(first)), s1 |-> <<>>]
                ELSE Panic

\* ---------------------------------------------------------------------------
\* Period::get_channel on channel c of the buffer state (rs, sc, ml), for the
\* period [start, start + l). A failed unwrap or an out-of-range slice panics.
\* ---------------------------------------------------------------------------
PeriodGetChannel(rs, sc, ml, c, start, l) ==
    LET segs == VecDequeAsSlices(rs[c])
        first == segs[1]
        second == segs[2]
        bufLen == Min(sc, ml)
        lenToBufferEnd == sc - start
        Panic == [panic |-> TRUE, s0 |-> <<>>, s1 |-> <<>>]
        \* &v[a..b]
        Slice(v, a, b) == SubSeq(v, a + 1, b)
        SliceOk(v, a, b) == a <= b /\ b <= Len(v)
    IN IF lenToBufferEnd < 0 \/ bufLen < lenToBufferEnd THEN Panic
       ELSE
        LET st == bufLen - lenToBufferEnd
            en == st + l
        IN IF st < Len(first)
           THEN IF en <= Len(first)
                THEN [panic |-> FALSE, s0 |-> Slice(first, st, en), s1 |-> <<>>]
                ELSE IF SliceOk(second, 0, en - Len(first))
                     THEN [panic |-> FALSE, s0 |-> Slice(first, st, Len(first)),
                           s1 |-> Slice(second, 0, en - Len(first))]
                     ELSE Panic
           ELSE IF SliceOk(second, st - Len(first), en - Len(first))
                THEN [panic |-> FALSE,
                      s0 |-> Slice(second, st - Len(first), en - Len(first)), s1 |-> <<>>]
                ELSE Panic

\* ChannelPeriod::iter: slice 0, then slice 1
ChannelPeriodIter(r) == r.s0 \o r.s1

\* ---------------------------------------------------------------------------
\* PeriodBuffer
\* ---------------------------------------------------------------------------
MaxPeriodLen == 3

PeriodBufferHasNextStrict == nextPeriodEnd < sampleCount

PeriodBufferHasNext == nextPeriodEnd <= sampleCount

\* next advancing by period_len instead of period_stride
PeriodBufferNextByLen ==
    /\ ~panicked
    /\ IF PeriodBufferHasNext
       THEN LET start == nextPeriodEnd - periodLen
            IN /\ lastPeriod' =
                    [some |-> TRUE, k |-> periodsOut, start |-> start, len |-> periodLen,
                     slices |-> [c \in DOMAIN rings |->
                                   PeriodGetChannel(rings, sampleCount, maxLen, c,
                                                    start, periodLen)]]
               /\ nextPeriodEnd' = nextPeriodEnd + periodLen
               /\ periodsOut' = periodsOut + 1
       ELSE /\ lastPeriod' = NonePeriod
            /\ UNCHANGED <<nextPeriodEnd, periodsOut>>
    /\ UNCHANGED <<bufVars, panicked, lastFrame, periodLen, periodStride, gcRes,
                   pipeVars, chainVars>>
    /\ UNCHANGED <<accVars, outVars, capVars, exVars, dspVars, iterVars, inVars, wavVars>>

\* PeriodBuffer::next; the consumer reads every channel of the returned
\* Period (Period::channels) while it holds it.
PeriodBufferNext ==
    /\ ~panicked
    /\ IF PeriodBufferHasNext
       THEN LET start == nextPeriodEnd - periodLen
            IN /\ lastPeriod' =
                    [some |-> TRUE, k |-> periodsOut, start |-> start, len |-> periodLen,
                     slices |-> [c \in DOMAIN rings |->
                                   PeriodGetChannel(rings, sampleCount, maxLen, c,
                                                    start, periodLen)]]
               /\ nextPeriodEnd' = nextPeriodEnd + periodStride
               /\ periodsOut' = periodsOut + 1
       ELSE /\ lastPeriod' = NonePeriod
            /\ UNCHANGED <<nextPeriodEnd, periodsOut>>
    /\ UNCHANGED <<bufVars, panicked, lastFrame, periodLen, periodStride, gcRes,
                   pipeVars, chainVars>>
    /\ UNCHANGED <<accVars, outVars, capVars, exVars, dspVars, iterVars, inVars, wavVars>>

\* PeriodBuffer::push with the retention assertion compiled out (as a
\* debug_assert! would be in a release build)
PeriodBufferPushUnchecked ==
    /\ ~panicked
    /\ \E f \in Frames :
        /\ sampleCount + Len(f.samples) \div channels <= MaxSampleCount
        /\ lastFrame' = f
        /\ IF SampleBufferPushOk(f)
           THEN /\ SampleBufferPushEffect(f)
                /\ panicked' = FALSE
           ELSE /\ panicked' = TRUE
                /\ UNCHANGED <<rings, sampleCount, hist>>
    /\ UNCHANGED <<maxLen, channels, sampleRate, pbVars, gcRes, pipeVars, chainVars>>
    /\ UNCHANGED <<accVars, outVars, capVars, exVars, dspVars, iterVars, inVars, wavVars>>

\* PeriodBuffer::push: SampleBuffer::push, then the retention assertion
PeriodBufferPush ==
    /\ ~panicked
    /\ \E f \in Frames :
        /\ sampleCount + Len(f.samples) \div channels <= MaxSampleCount
        /\ lastFrame' = f
        /\ IF SampleBufferPushOk(f)
           THEN /\ SampleBufferPushEffect(f)
                /\ panicked' = ~PeriodBufferRetained(nextPeriodEnd, periodLen,
                                                     sampleCount', maxLen)
           ELSE /\ panicked' = TRUE
                /\ UNCHANGED <<rings, sampleCount, hist>>
    /\ UNCHANGED <<maxLen, channels, sampleRate, pbVars, gcRes, pipeVars, chainVars>>
    /\ UNCHANGED <<accVars, outVars, capVars, exVars, dspVars, iterVars, inVars, wavVars>>

\* PeriodBuffer::new(SampleBuffer::new(..), period_len, period_stride)
InitPeriodBuffer ==
    /\ InitSampleBuffer
    /\ periodLen \in 1..MaxPeriodLen
    /\ periodStride \in 1..MaxPeriodLen
    /\ nextPeriodEnd = periodLen
    /\ periodsOut = 0
    /\ lastPeriod = NonePeriod
    /\ gcRes = NoQuery
    /\ InitPipelineIdle /\ InitChainIdle

NextPeriodBuffer == PeriodBufferPush \/ PeriodBufferNext

SpecPeriodBuffer == InitPeriodBuffer /\ [][NextPeriodBuffer]_vars

\* A caller of Period::get_channel on an arbitrary window of the buffer
GetChannelQuery ==
    /\ ~panicked
    /\ \E c \in DOMAIN rings, start \in 0..sampleCount, l \in 0..MaxLenBound :
        /\ start + l <= sampleCount
        /\ gcRes' = [done |-> TRUE, channel |-> c, start |-> start, len |-> l,
                     res |-> PeriodGetChannel(rings, sampleCount, maxLen, c, start, l)]
    /\ UNCHANGED <<bufVars, panicked, lastFrame, pbVars, pipeVars, chainVars>>
    /\ UNCHANGED <<accVars, outVars, capVars, exVars, dspVars, iterVars, inVars, wavVars>>

NextGetChannel == SampleBufferPush \/ GetChannelQuery

SpecGetChannel == InitSampleBufferSpec /\ [][NextGetChannel]_vars

\* ---------------------------------------------------------------------------
\* Pipeline (generic Input, Step and Output)
\* ---------------------------------------------------------------------------
MaxTicks == 3
MaxOuts == 2

\* An output loop that keeps pushing the remaining outputs after an Err
RECURSIVE PipelinePushLoopContinue(_, _, _, _, _)
PipelinePushLoopContinue(outs, oks, i, acc, err) ==
    IF i > Len(outs) THEN [sink |-> acc, err |-> err, attempts |-> Len(outs)]
    ELSE IF oks[i] THEN PipelinePushLoopContinue(outs, oks, i + 1, Append(acc, outs[i]), err)
         ELSE PipelinePushLoopContinue(outs, oks, i + 1, acc, TRUE)

PipelinePushLoopNoStop(outs, oks, i, acc) == PipelinePushLoopContinue(outs, oks, i, acc, FALSE)

\* The output loop of Pipeline::process_once: push outs[i], outs[i+1], ...;
\* oks[i] is the Output's answer to the i-th push; return at the first Err.
RECURSIVE PipelinePushLoop(_, _, _, _)
PipelinePushLoop(outs, oks, i, acc) ==
    IF i > Len(outs) THEN [sink |-> acc, err |-> FALSE, attempts |-> Len(outs)]
    ELSE IF oks[i] THEN PipelinePushLoop(outs, oks, i + 1, Append(acc, outs[i]))
         ELSE [sink |-> acc, err |-> TRUE, attempts |-> i]

\* Pipeline::process_once: read one item; on Err return InputError; otherwise
\* run the step (any finite output sequence) and push its outputs in order.
PipelineProcessOnce ==
    /\ stepCalls < MaxTicks
    /\ \E readOk \in BOOLEAN :
        IF ~readOk
        THEN /\ pipeRes' = "InputError"
             /\ lastTick' = [read |-> FALSE, outs |-> <<>>, oks |-> <<>>, attempts |-> 0]
             /\ UNCHANGED <<stepCalls, sink>>
        ELSE \E n \in 0..MaxOuts :
             \E oks \in [1..n -> BOOLEAN] :
                LET outs == [j \in 1..n |-> <<stepCalls, j>>]
                    r == PipelinePushLoop(outs, oks, 1, sink)
                IN /\ stepCalls' = stepCalls + 1
                   /\ sink' = r.sink
                   /\ pipeRes' = IF r.err THEN "OutputError" ELSE "Ok"
                   /\ lastTick' = [read |-> TRUE, outs |-> outs, oks |-> oks,
                                   attempts |-> r.attempts]
    /\ UNCHANGED <<bufVars, panicked, lastFrame, pbVars, gcRes, chainVars>>
    /\ UNCHANGED <<accVars, outVars, capVars, exVars, dspVars, iterVars, inVars, wavVars>>

InitPipeline ==
    /\ InitSampleBuffer /\ InitPeriodBufferIdle /\ gcRes = NoQuery
    /\ InitPipelineIdle
    /\ InitChainIdle

NextPipeline == PipelineProcessOnce

SpecPipeline == InitPipeline /\ [][NextPipeline]_vars

\* ---------------------------------------------------------------------------
\* Chain(first, second) and the iteration of its ChainResult
\* ---------------------------------------------------------------------------
MaxInter == 3
InterVals == 1..4

\* A second step yielding y % 3 outputs for intermediate y
SecondProcess(y) == [j \in 1..(y % 3) |-> <<y, j>>]

\* Chain::process: runs first.process(input) and wraps its result
ChainProcess ==
    /\ chainPc = "idle"
    /\ \E n \in 0..MaxInter :
       \E inter \in [1..n -> InterVals] :
          /\ chainInter' = inter
          /\ chainYield' = <<>>
          /\ chainPc' = "iter"
    /\ UNCHANGED <<bufVars, panicked, lastFrame, pbVars, gcRes, pipeVars>>
    /\ UNCHANGED <<accVars, outVars, capVars, exVars, dspVars, iterVars, inVars, wavVars>>

\* ChainResult::next: todo!() panics
ChainResultNext ==
    /\ chainPc = "iter"
    /\ chainPc' = "panicked"
    /\ UNCHANGED <<bufVars, panicked, lastFrame, pbVars, gcRes, pipeVars,
                   chainInter, chainYield>>
    /\ UNCHANGED <<accVars, outVars, capVars, exVars, dspVars, iterVars, inVars, wavVars>>

InitChain ==
    /\ InitSampleBuffer /\ InitPeriodBufferIdle /\ gcRes = NoQuery
    /\ InitPipelineIdle /\ InitChainIdle

NextChain == ChainProcess \/ ChainResultNext

SpecChain == InitChain /\ [][NextChain]_vars

InitAccumulator ==
    /\ InitSampleBufferIdle /\ InitPeriodBufferIdle /\ gcRes = NoQuery
    /\ InitPipelineIdle
    /\ chainPc = "idle" /\ chainInter = <<>> /\ chainYield = <<>>
    /\ InitAccumulatorOnly /\ InitOutIdle /\ InitCapIdle /\ InitExIdle /\ InitWavIdle
    /\ InitDspIdle /\ InitIterIdle

NextAccumulator == FrameAccumulatorProcess \/ FrameAccumulatorWithFrameLen

SpecAccumulator == InitAccumulator /\ [][NextAccumulator]_vars

InitOutput ==
    /\ InitSampleBufferIdle /\ InitPeriodBufferIdle /\ gcRes = NoQuery
    /\ InitPipelineIdle
    /\ chainPc = "idle" /\ chainInter = <<>> /\ chainYield = <<>>
    /\ InitAccIdle /\ InitOutIdle /\ InitCapIdle /\ InitExIdle /\ InitWavIdle
    /\ InitDspIdle /\ InitIterIdle

NextOutput ==
    \/ OutputPush \/ OutputPushResume \/ OutputFillStart \/ OutputFillStep
    \/ OutputSenderDrop \/ OutputReceiverDrop

SpecOutput == InitOutput /\ [][NextOutput]_vars

\* The output callback is invoked periodically by the audio thread, and not
\* forever with empty device buffers only: a call with a non-empty buffer
\* starts whenever the callback is repeatedly free to start one. A blocked
\* send_blocking is woken when the channel frees a slot or closes.
SpecOutputLive ==
    /\ SpecOutput
    /\ SF_vars(OutputFillStart /\ fill'.n > 0)
    /\ WF_vars(OutputFillStep)
    /\ WF_vars(OutputPushResume)

InitCapture ==
    /\ InitSampleBufferIdle /\ InitPeriodBufferIdle /\ gcRes = NoQuery
    /\ InitPipelineIdle
    /\ chainPc = "idle" /\ chainInter = <<>> /\ chainYield = <<>>
    /\ InitAccIdle /\ InitOutIdle /\ InitCapIdle /\ InitExIdle /\ InitWavIdle
    /\ InitDspIdle /\ InitIterIdle

NextCapture == CaptureCallback \/ CaptureRecv \/ CaptureReceiverDrop

SpecCapture == InitCapture /\ [][NextCapture]_vars

\* The device's audio thread keeps invoking the callback; the reader (the
\* Executor) gets no fairness at all: it may be blocked forever elsewhere
SpecCaptureLive == SpecCapture /\ WF_vars(CaptureCallback)

NextExecutor ==
    \/ ExecRead \/ ExecSend \/ ExecReadFail \/ ConsumerRecv \/ ConsumerClose \/ InputClose

SpecExecutor == InitCapture /\ [][NextExecutor]_vars

\* A consumer that keeps receiving, and an Executor thread that is scheduled
\* whenever it is not blocked
SpecExecutorLive ==
    /\ SpecExecutor
    /\ WF_vars(ConsumerRecv)
    /\ WF_vars(ExecSend)
    /\ WF_vars(ExecReadFail)

\* The components not used by the dsp specifications, idle
InitDspOthersIdle ==
    /\ InitSampleBufferIdle /\ InitPeriodBufferIdle /\ gcRes = NoQuery
    /\ InitPipelineIdle
    /\ chainPc = "idle" /\ chainInter = <<>> /\ chainYield = <<>>
    /\ InitAccIdle /\ InitOutIdle /\ InitCapIdle /\ InitExIdle /\ InitIterIdle /\ InitWavIdle

\* A PolarFFT with up to MaxBins values, phases multiples of PI/4
InitUnwrap ==
    /\ InitDspOthersIdle
    /\ phHist \in {<<ph>> : ph \in UNION {[1..k -> PhaseUnits] : k \in 0..MaxBins}}
    /\ foldIn = <<>> /\ foldRate = 1
    /\ foldOut = [done |-> FALSE] /\ freqOut = [done |-> FALSE]

NextUnwrap == UnwrapPhaseCall

SpecUnwrap == InitUnwrap /\ [][NextUnwrap]_vars

\* A PolarFFT of 0..MaxFoldLen values (values is public, so it may be empty)
InitFold ==
    /\ InitDspOthersIdle
    /\ phHist = <<<<>>>>
    /\ foldIn \in UNION {[1..k -> [mag : FoldMags, ph : FoldPhases]] : k \in 0..MaxFoldLen}
    /\ foldRate \in FoldRates
    /\ foldOut = [done |-> FALSE] /\ freqOut = [done |-> FALSE]

NextFold == IntoFoldedCall \/ FrequenciesCall

SpecFold == InitFold /\ [][NextFold]_vars

\* An IteratorInput over a fused iterator of 0..MaxIterLen samples, with
\* frame_len in 0..MaxIterFrameLen (new does not check it)
InitIter ==
    /\ InitSampleBufferIdle /\ InitPeriodBufferIdle /\ gcRes = NoQuery
    /\ InitPipelineIdle
    /\ chainPc = "idle" /\ chainInter = <<>> /\ chainYield = <<>>
    /\ InitAccIdle /\ InitOutIdle /\ InitCapIdle /\ InitExIdle /\ InitDspIdle /\ InitWavIdle
    /\ itLen \in 0..MaxIterLen
    /\ itFrameLen \in 0..MaxIterFrameLen
    /\ itPos = 0 /\ itOut = <<>>

NextIter == IteratorInputNext \/ IteratorInputWithFrameLen

SpecIter == InitIter /\ [][NextIter]_vars

\* WavWriter::new(channels, sample_rate)
InitWav ==
    /\ InitSampleBufferIdle /\ InitPeriodBufferIdle /\ gcRes = NoQuery
    /\ InitPipelineIdle
    /\ chainPc = "idle" /\ chainInter = <<>> /\ chainYield = <<>>
    /\ InitAccIdle /\ InitOutIdle /\ InitCapIdle /\ InitExIdle /\ InitDspIdle /\ InitIterIdle
    /\ wavChannels \in WavChannelCounts
    /\ wavRate \in WavRates
    /\ wavCount = 0 /\ wavWritten = 0 /\ wavFlushedAt = 0 /\ wavLastLen = 0
    /\ wavLastGap = -1 /\ wavPushes = 0

NextWav == WavWriterPush

SpecWav == InitWav /\ [][NextWav]_vars

\* The last n elements of sequence s (all of s when it is shorter)
LastN(s, n) == IF n >= Len(s) THEN s ELSE SubSeq(s, Len(s) - n + 1, Len(s))

\* C1: after any sequence of pushes, each channel's ring read first segment
\* then second segment is exactly the last min(sample_count, max_len) samples
\* ever pushed to that channel, in temporal order (also when it wraps).
RingCorrectness ==
    \A c \in DOMAIN rings :
        Contents(rings[c]) = LastN(hist[c], Min(sampleCount, maxLen))

\* C1 (amended): with max_len >= 1 each channel's ring, read first segment
\* then second segment, is the last min(sample_count, max_len) samples pushed
\* to that channel in order, also when it wraps; with max_len = 0 the ring
\* keeps every sample pushed to that channel.
RingCorrectnessPositiveMaxLen ==
    \A c \in DOMAIN rings :
        Contents(rings[c]) = IF maxLen = 0 THEN hist[c]
                             ELSE LastN(hist[c], Min(sampleCount, maxLen))

\* A state where a ring has wrapped (two non-empty segments)
RingWrappedWitness ==
    \E c \in DOMAIN rings :
        /\ VecDequeAsSlices(rings[c])[2] # <<>>
        /\ sampleCount > maxLen + 1

\* C2: push sends the i-th sample of a frame to channel i mod channels and
\* keeps the order within each channel: each ring becomes its old contents
\* followed by that channel's samples, cut to the last max_len (max_len 0
\* never pops a sample).
Deinterlacing ==
    [][ (SampleBufferPush /\ ~panicked') =>
        \A c \in DOMAIN rings :
            LET x == Contents(rings[c]) \o ChannelSamples(lastFrame'.samples, channels, c)
            IN Contents(rings'[c]) = LastN(x, IF maxLen = 0 THEN Len(x) ELSE maxLen) ]_vars

DeinterlacingWitness ==
    /\ ~panicked
    /\ lastFrame.channels = 2
    /\ Len(lastFrame.samples) = 4
    /\ lastFrame.samples[1] # lastFrame.samples[2]

\* C3: every ring holds at most max_len samples and as many as len();
\* sample_count never decreases, each successful push raises it by
\* samples.len()/channels, so it counts every per-channel sample pushed.
SampleCountInvariant ==
    /\ [](\A c \in DOMAIN rings :
            /\ rings[c].len <= maxLen
            /\ rings[c].len = SampleBufferLen
            /\ sampleCount = Len(hist[c]))
    /\ [][ /\ sampleCount' >= sampleCount
          /\ (SampleBufferPush /\ ~panicked') =>
                sampleCount' = sampleCount + Len(lastFrame'.samples) \div channels ]_vars

\* C3 (amended): with max_len >= 1 every ring holds at most max_len samples
\* and as many as len(); with max_len = 0 every ring holds all sample_count
\* samples while len() is 0. sample_count never decreases, each successful
\* push raises it by samples.len()/channels, so it counts every per-channel
\* sample pushed.
SampleCountInvariantPositiveMaxLen ==
    /\ [](\A c \in DOMAIN rings :
            /\ maxLen > 0 => rings[c].len <= maxLen /\ rings[c].len = SampleBufferLen
            /\ maxLen = 0 => rings[c].len = sampleCount /\ SampleBufferLen = 0
            /\ sampleCount = Len(hist[c]))
    /\ [][ /\ sampleCount' >= sampleCount
          /\ (SampleBufferPush /\ ~panicked') =>
                sampleCount' = sampleCount + Len(lastFrame'.samples) \div channels ]_vars

SampleCountWitness ==
    /\ sampleCount > maxLen
    /\ channels = 2

\* C4: push panics exactly when the frame's channel count or sample rate
\* differs from the buffer's, or samples.len() is not a multiple of channels;
\* a rejected push changes neither the rings nor sample_count.
PushRejectsMismatch ==
    [][ SampleBufferPush =>
        /\ (panicked' <=> \/ lastFrame'.channels # channels
                         \/ lastFrame'.rate # sampleRate
                         \/ Len(lastFrame'.samples) % channels # 0)
        /\ (panicked' => UNCHANGED bufVars) ]_vars

PushRejectsWitness ==
    /\ panicked
    /\ sampleCount > 0
    /\ lastFrame.channels = channels

\* C5: the k-th period returned by PeriodBuffer::next covers sample indices
\* [k*period_stride, k*period_stride + period_len), for any interleaving of
\* push and next; iterating get_channel(c) yields exactly those samples of
\* channel c in temporal order.
PeriodWindowing ==
    [][ (PeriodBufferNext /\ lastPeriod'.some) =>
        /\ lastPeriod'.start = lastPeriod'.k * periodStride
        /\ lastPeriod'.len = periodLen
        /\ \A c \in DOMAIN rings :
              /\ ~lastPeriod'.slices[c].panic
              /\ ChannelPeriodIter(lastPeriod'.slices[c])
                   = SubSeq(hist[c], lastPeriod'.start + 1, lastPeriod'.start + periodLen) ]_vars

\* An overlapping third (or later) period that straddles both ring segments
PeriodWindowingWitness ==
    /\ lastPeriod.some
    /\ lastPeriod.k >= 2
    /\ periodStride < periodLen
    /\ \E c \in DOMAIN lastPeriod.slices : lastPeriod.slices[c].s1 # <<>>

\* C6: next returns Some exactly when next_period_end <= sample_count and
\* then advances next_period_end by period_stride; otherwise it returns None
\* and leaves next_period_end and the buffer unchanged.
HasNextContract ==
    [][ PeriodBufferNext =>
        /\ lastPeriod'.some <=> nextPeriodEnd <= sampleCount
        /\ lastPeriod'.some => nextPeriodEnd' = nextPeriodEnd + periodStride
        /\ ~lastPeriod'.some => UNCHANGED <<nextPeriodEnd, bufVars>> ]_vars

HasNextWitness ==
    /\ ~lastPeriod.some
    /\ periodsOut >= 1
    /\ sampleCount >= periodLen

\* C7 (as stated): PeriodBuffer::push panics exactly when, after the push,
\* next_period_end - period_len < sample_count - min(sample_count, max_len).
PushPanicsOnlyOnUnderrun ==
    [][ PeriodBufferPush =>
        (panicked' <=> nextPeriodEnd - periodLen < sampleCount' - Min(sampleCount', maxLen)) ]_vars

\* C7 (amended): PeriodBuffer::push panics exactly when the frame fails one of
\* SampleBuffer::push's assertions (channels, sample rate, samples.len() a
\* multiple of channels) or, after the push, the start of the next pending
\* period is earlier than the oldest retained sample.
PushPanicsOnMismatchOrUnderrun ==
    [][ PeriodBufferPush =>
        (panicked' <=> \/ lastFrame'.channels # channels
                       \/ lastFrame'.rate # sampleRate
                       \/ Len(lastFrame'.samples) % channels # 0
                       \/ nextPeriodEnd - periodLen < sampleCount' - Min(sampleCount', maxLen)) ]_vars

PushUnderrunWitness ==
    /\ panicked
    /\ lastFrame.channels = channels
    /\ lastFrame.rate = sampleRate
    /\ sampleCount > maxLen

\* C8: for a window [start, start+len) with end <= sample_count and start at or
\* after the oldest retained sample, get_channel returns slices of total length
\* len, slice 1 is non-empty only when the window straddles both ring
\* segments, and slice 0 then slice 1 is the window in temporal order; when
\* start is older than the oldest retained sample it panics.
GetChannelSlicing ==
    [][ GetChannelQuery =>
        LET q == gcRes'
            oldest == SampleBufferOldestSampleIndex
            off == q.start - oldest
            firstLen == Len(VecDequeAsSlices(rings[q.channel])[1])
        IN /\ q.start < oldest => q.res.panic
           /\ q.start >= oldest =>
                /\ ~q.res.panic
                /\ Len(q.res.s0) + Len(q.res.s1) = q.len
                /\ ChannelPeriodIter(q.res) = SubSeq(hist[q.channel], q.start + 1, q.start + q.len)
                /\ q.res.s1 # <<>> => (off < firstLen /\ off + q.len > firstLen) ]_vars

GetChannelWitness ==
    /\ gcRes.done
    /\ ~gcRes.res.panic
    /\ gcRes.res.s1 # <<>>

\* Index of the first failing push (Len(oks) + 1 when none fails)
FirstFailure(oks) ==
    IF \E j \in DOMAIN oks : ~oks[j]
    THEN CHOOSE j \in DOMAIN oks : ~oks[j] /\ \A i \in 1..(j - 1) : oks[i]
    ELSE Len(oks) + 1

\* C9: process_once reads one item; a failed read returns InputError, does not
\* run the step and pushes nothing; otherwise every output of the step is
\* pushed in order until the first failing push, which returns OutputError
\* and stops the loop; earlier pushes stay, none is pushed twice.
ProcessOnceContract ==
    [][ PipelineProcessOnce =>
        IF ~lastTick'.read
        THEN /\ pipeRes' = "InputError"
             /\ UNCHANGED <<stepCalls, sink>>
        ELSE LET outs == lastTick'.outs
                 f == FirstFailure(lastTick'.oks)
             IN /\ stepCalls' = stepCalls + 1
                /\ sink' = sink \o SubSeq(outs, 1, f - 1)
                /\ lastTick'.attempts = Min(f, Len(outs))
                /\ pipeRes' = IF f <= Len(outs) THEN "OutputError" ELSE "Ok" ]_vars

\* A tick whose second push failed after the first was accepted
ProcessOnceWitness ==
    /\ pipeRes = "OutputError"
    /\ Len(lastTick.outs) = 2
    /\ lastTick.oks[1]
    /\ stepCalls >= 2

\* C10: iterating Chain(first, second).process(x) yields, in order and in full,
\* the concatenation of second.process(y) over the intermediates y of
\* first.process(x), and nothing else.
RECURSIVE ChainConcat(_)
ChainConcat(inter) ==
    IF inter = <<>> THEN <<>> ELSE SecondProcess(Head(inter)) \o ChainConcat(Tail(inter))

ChainYieldsConcatenation ==
    /\ chainPc # "panicked"
    /\ chainPc = "done" => chainYield = ChainConcat(chainInter)

\* C11: FrameAccumulator::process returns None except on every frame_len-th
\* call, which returns a Frame of the last frame_len inputs in order with the
\* accumulator's channels and sample rate; the emitted frames concatenated are
\* the inputs truncated to a multiple of frame_len.
AccumulatorFrames ==
    /\ [](accFrameLen # 0 =>
            accOut = SubSeq(accIn, 1, (Len(accIn) \div accFrameLen) * accFrameLen))
    /\ [][ (FrameAccumulatorProcess /\ accFrameLen # 0) =>
           /\ accLast'.some <=> Len(accIn') % accFrameLen = 0
           /\ accLast'.some =>
                /\ accLast'.samples = LastN(accIn', accFrameLen)
                /\ accLast'.channels = accChannels
                /\ accLast'.rate = AccRate ]_vars

AccumulatorWitness ==
    /\ accLast.some
    /\ accFrameLen >= 2
    /\ Len(accIn) >= 2 * accFrameLen

\* C11 (amended): with_frame_len may change frame_len between frames, so
\* process returns Some exactly on the call that brings the pending samples up
\* to the frame_len in force, that Frame holds the last frame_len inputs in
\* order with the accumulator's channels and rate, the emitted frames followed
\* by the pending samples are always the inputs, and the truncation to a
\* multiple of frame_len holds as long as frame_len was never changed.
AccumulatorFramesResizable ==
    /\ [](accOut \o accSamples = accIn)
    /\ []((~accResized /\ accFrameLen # 0) =>
            accOut = SubSeq(accIn, 1, (Len(accIn) \div accFrameLen) * accFrameLen))
    /\ [][ FrameAccumulatorProcess =>
           /\ accLast'.some <=> Len(accSamples) + 1 = accFrameLen
           /\ accLast'.some =>
                /\ accLast'.samples = LastN(accIn', accFrameLen)
                /\ accLast'.channels = accChannels
                /\ accLast'.rate = AccRate ]_vars

AccumulatorResizedWitness ==
    /\ accResized
    /\ accLast.some
    /\ accFrameLen > 0
    /\ Len(accOut) % accFrameLen # 0

\* A fill_buffer call returning
FillReturn == OutputFillStep /\ fill'.pc = "idle"

FillBufferWitness ==
    /\ lastFill.res = "ok"
    /\ lastFill.count = lastFill.n
    /\ lastFill.n >= 2
    /\ outCurSample # -1
    /\ Len(outWritten) > lastFill.n

\* C13: over any interleaving of pushes and fills, the samples written by
\* fill_buffer, in call order, are a prefix of the pushed frames' samples.
PlaybackFidelity ==
    /\ Len(outWritten) <= Len(outPushed)
    /\ outWritten = SubSeq(outPushed, 1, Len(outWritten))

PlaybackFidelityWitness ==
    /\ Len(outWritten) >= 4
    /\ Len(outPushed) > Len(outWritten)

\* C14: with the channel closed and nothing left, fill_buffer returns
\* Err(EndOfStream), not Ok; frames queued when the sender closed are all
\* copied out before (or by) the call that reports end of stream.
EndOfStreamContract ==
    [][ FillReturn =>
        /\ (lastFill'.closed /\ lastFill'.avail = 0) => lastFill'.res = "eos"
        /\ lastFill'.res = "eos" => (outSenderClosed /\ outWritten' = outPushed) ]_vars

\* C14 (amended): a fill_buffer call on a non-empty buffer that begins with
\* the channel closed and no frame or remainder left returns
\* Err(EndOfStream); on an empty buffer it returns Ok(0); a call returns
\* EndOfStream only once the sender is gone and every pushed sample has been
\* copied out.
EndOfStreamNonEmptyBuffer ==
    [][ FillReturn =>
        /\ (lastFill'.closed /\ lastFill'.avail = 0 /\ lastFill'.n > 0) => lastFill'.res = "eos"
        /\ lastFill'.n = 0 => (lastFill'.res = "ok" /\ lastFill'.count = 0)
        /\ lastFill'.res = "eos" => (outSenderClosed /\ outWritten' = outPushed) ]_vars

EndOfStreamWitness ==
    /\ lastFill.res = "eos"
    /\ Len(outWritten) >= 3

\* C15: push blocks while the queue holds MAX_FRAME_QUEUE_LEN frames and
\* completes once the callback drains one; the queue never holds more; with
\* the receiver dropped push returns DeviceClosed.
Backpressure ==
    /\ [](Len(outQ) <= MaxFrameQueueLen)
    /\ [][ OutputPush =>
           /\ (prodPc' = "blocked") <=> (~outRxDropped /\ Len(outQ) = MaxFrameQueueLen)
           /\ outRxDropped => prodRes' = "DeviceClosed" ]_vars
    /\ [][ OutputPushResume => (outRxDropped <=> prodRes' = "DeviceClosed") ]_vars
    /\ (prodPc = "blocked") ~> (prodPc = "idle")

\* push blocked on a full queue while a fill_buffer call is under way
BackpressureWitness ==
    /\ prodPc = "blocked"
    /\ Len(outQ) = MaxFrameQueueLen
    /\ fill.pc = "busy"

Range(sq) == {sq[i] : i \in DOMAIN sq}

\* C16: the input callback never blocks; on a full queue (CHANNEL_MAX frames)
\* the new Frame is dropped and never enqueued later, otherwise it is
\* enqueued; the Frames received are a subsequence of the callbacks' Frames,
\* in callback order.
CaptureDropPolicy ==
    /\ [](LET seen == capRecv \o capQ
          IN /\ Len(capQ) <= ChannelMax
             /\ \A i, j \in DOMAIN seen : i < j => seen[i] < seen[j]
             /\ Range(seen) \cap capDropped = {}
             /\ Range(seen) \cup capDropped = 1..capCount)
    /\ [][ (CaptureCallback /\ ~capRxGone) =>
           IF Len(capQ) = ChannelMax
           THEN capQ' = capQ /\ capCount' \in capDropped'
           ELSE capQ' = Append(capQ, capCount') ]_vars

\* A Frame dropped on a full queue, with later Frames received
CaptureDropWitness ==
    /\ ~capRxGone
    /\ capDropped # {}
    /\ \E i \in DOMAIN capRecv : \E x \in capDropped : capRecv[i] > x

\* The messages of the first k periods of the stream, in temporal order
ExpectedMsgs(k) ==
    LET m(i) == IF i % 2 = 1
                THEN [kind |-> "FFTResult", start |-> ((i - 1) \div 2) * ExecPeriodLen,
                      width |-> ExecPeriodLen, n |-> ExecChannels]
                ELSE [kind |-> "RMSLevels", start |-> ((i - 1) \div 2) * ExecPeriodLen,
                      width |-> 0, n |-> ExecChannels]
    IN [i \in 1..(2 * k) |-> m(i)]

IsClosed(m) == m.kind = "AudioStreamClosed"

\* A message sequence with the time stamps left out
Untimed(sq) == [i \in DOMAIN sq |-> [kind |-> sq[i].kind, start |-> sq[i].start,
                                      width |-> sq[i].width, n |-> sq[i].n]]

\* C17: per frame the Executor writes it to the WAV sink, pushes it into the
\* PeriodBuffer and drains every available Period, sending one FFTResult and
\* one RMSLevels message per Period, adjacent, in production order: the
\* Periods reported are consecutive windows with none skipped or repeated.
ExecutorPerFrame ==
    LET body == SelectSeq(exSent, LAMBDA m : ~IsClosed(m))
    IN /\ Untimed(body) = SubSeq(ExpectedMsgs((Len(body) + 1) \div 2), 1, Len(body))
       /\ exWav = exSc
       /\ (exPc = "read" /\ ~exInputFailed) => Len(body) = 2 * (exSc \div ExecPeriodLen)

\* A frame that made two Periods available at once, all sent
ExecutorPerFrameWitness ==
    /\ exPc = "read"
    /\ Len(exSent) >= 4
    /\ exSc >= 2 * ExecPeriodLen

\* C18: when a read fails the Executor sends exactly one AudioStreamClosed and
\* exits; it is the last message it sends and it reads no further input.
ExecutorInputClosed ==
    /\ [](exInputFailed => (exPc = "exit" /\ exClosedSends = 1))
    /\ [](\A i \in DOMAIN exSent : IsClosed(exSent[i]) => i = Len(exSent))
    /\ [][ exPc = "exit" =>
           /\ exPc' = "exit"
           /\ UNCHANGED <<exReads, exSent, exClosedSends>> ]_vars

ExecutorInputClosedWitness ==
    /\ exInputFailed
    /\ Len(exSent) >= 3
    /\ IsClosed(exSent[Len(exSent)])

\* C19: a send that fails because the consumer is closed makes the Executor
\* exit at once: none of the frame's remaining messages, no
\* AudioStreamClosed, no further reads.
ExecutorConsumerClosed ==
    /\ [][ (ExecSend /\ conClosed) => (exPc' = "exit" /\ exSent' = exSent) ]_vars
    /\ [](exSendFailed => (exPc = "exit" /\ exClosedSends = 0))
    /\ [][ exSendFailed => UNCHANGED <<exPc, exReads, exSent, exClosedSends>> ]_vars

ExecutorConsumerClosedWitness ==
    /\ exSendFailed
    /\ Len(exSent) >= 1
    /\ exPending # <<>>

\* C20: every FFTResult covers a full window of period_len samples with one
\* FoldedFFT per channel, and the stream the consumer observes ends with
\* AudioStreamClosed whenever the input terminates while it still receives.
ConsumerStream ==
    LET seen == conRecv \o conQ
    IN /\ \A i \in DOMAIN exSent :
            exSent[i].kind = "FFTResult" =>
                /\ exSent[i].width = ExecPeriodLen
                /\ exSent[i].n = ExecChannels
                /\ exSent[i].start + ExecPeriodLen <= exSc
       /\ (exInputFailed /\ ~conClosed) => (seen # <<>> /\ IsClosed(seen[Len(seen)]))

ConsumerStreamWitness ==
    /\ exInputFailed
    /\ ~conClosed
    /\ conQ = <<>>
    /\ Len(conRecv) >= 3

\* C21: the RMSLevels message sent for a Period carries as its time the end
\* of the measurement period (start_sample_num + len), the same instant as the
\* end_time of the FFTResult sent just before it for that Period.
RMSLevelsAtEndTime ==
    \A i \in DOMAIN exSent :
        exSent[i].kind = "RMSLevels" =>
            /\ i > 1
            /\ exSent[i - 1].kind = "FFTResult"
            /\ exSent[i].time = exSent[i].start + ExecPeriodLen
            /\ exSent[i].time = exSent[i - 1].time

\* C22: unwrap_phase is idempotent: applying it to an already unwrapped
\* phase sequence gives the same sequence back, for every phase sequence.
UnwrapIdempotent ==
    \A i \in 2..(Len(phHist) - 1) : phHist[i + 1] = phHist[i]

\* Every phase is within 3*PI of the previous one (of 0 for the first)
SmallSteps(ph) ==
    \A i \in DOMAIN ph :
        LET step == ph[i] - (IF i = 1 THEN 0 ELSE ph[i - 1])
        IN -3 * PI <= step /\ step <= 3 * PI

\* No step (from 0 for the first phase) is +-PI or +-3*PI, the steps whose
\* adjusted difference is +-PI
NoTieSteps(ph) ==
    \A i \in DOMAIN ph :
        LET step == ph[i] - (IF i = 1 THEN 0 ELSE ph[i - 1])
        IN step \notin {PI, -PI, 3 * PI, -3 * PI}

\* C22 (amended): unwrap(unwrap(p)) = unwrap(p) when every step of p (the
\* first phase's from 0) is within 3*PI and none is +-PI or +-3*PI; it
\* never holds when some step exceeds 3*PI. Steps of +-PI or +-3*PI leave a
\* difference of +-PI that f32 rounding may wrap on the second pass.
UnwrapIdempotentWithinThreePi ==
    \A i \in 2..(Len(phHist) - 1) :
        /\ (SmallSteps(phHist[i - 1]) /\ NoTieSteps(phHist[i - 1])) => phHist[i + 1] = phHist[i]
        /\ ~SmallSteps(phHist[i - 1]) => phHist[i + 1] # phHist[i]

UnwrapIdempotentWitness ==
    /\ Len(phHist) = 3
    /\ phHist[2] # phHist[1]
    /\ \E i \in DOMAIN phHist[2] : phHist[2][i] > PI \/ phHist[2][i] < -PI
    /\ phHist[3] = phHist[2]

\* C23: into_folded on n values returns n/2+1 values and unfolded_length n;
\* bin 0's magnitude is divided by n, the last bin's by n iff n is even, every
\* other bin's is multiplied by 2/n; phases are unchanged.
FoldingShape ==
    foldOut.done =>
        LET n == Len(foldIn)
            v == foldOut.values
            Scaled(i, k) == v[i].num * n = k * foldIn[i].mag * v[i].den
        IN /\ Len(v) = n \div 2 + 1
           /\ foldOut.unfolded = n
           /\ \A i \in DOMAIN v :
                /\ v[i].ph = foldIn[i].ph
                /\ IF i = 1 THEN Scaled(i, 1)
                   ELSE IF i = Len(v) /\ n % 2 = 0 THEN Scaled(i, 1)
                   ELSE Scaled(i, 2)

\* C23 (amended): into_folded on n >= 1 values returns n/2+1 values (on 0
\* values it returns none) and sets unfolded_length = n; bin 0's magnitude is
\* divided by n, the last bin's by n iff n is even, every other bin's
\* multiplied by 2/n; phases are unchanged.
FoldingShapeNonEmpty ==
    foldOut.done =>
        LET n == Len(foldIn)
            v == foldOut.values
            Scaled(i, k) == v[i].num * n = k * foldIn[i].mag * v[i].den
        IN /\ Len(v) = IF n = 0 THEN 0 ELSE n \div 2 + 1
           /\ foldOut.unfolded = n
           /\ \A i \in DOMAIN v :
                /\ v[i].ph = foldIn[i].ph
                /\ IF i = 1 THEN Scaled(i, 1)
                   ELSE IF i = Len(v) /\ n % 2 = 0 THEN Scaled(i, 1)
                   ELSE Scaled(i, 2)

FoldingShapeWitness ==
    /\ foldOut.done
    /\ Len(foldIn) = 4
    /\ \E m \in DOMAIN foldIn : foldIn[m].ph = 1

\* C24: frequencies() yields i * sample_rate / unfolded_length for i in
\* 0..values.len()-1 and nyquist_frequency() is sample_rate / 2; for a
\* FoldedFFT made by into_folded every listed frequency is at most the
\* Nyquist frequency.
FrequenciesBelowNyquist ==
    freqOut.done =>
        LET f == freqOut.freqs
            Le(a, b) == a.num * b.den <= b.num * a.den
        IN /\ Len(f) = Len(foldOut.values)
           /\ \A i \in DOMAIN f : f[i].num * foldOut.unfolded = (i - 1) * foldOut.rate * f[i].den
           /\ freqOut.nyq.num * 2 = foldOut.rate * freqOut.nyq.den
           /\ \A i \in DOMAIN f : Le(f[i], freqOut.nyq)

\* The top bin of an even-length FFT sits exactly at the Nyquist frequency
FrequenciesWitness ==
    /\ freqOut.done
    /\ Len(foldIn) > 0
    /\ Len(foldIn) % 2 = 0
    /\ LET f == freqOut.freqs
       IN f[Len(f)].num * freqOut.nyq.den = freqOut.nyq.num * f[Len(f)].den

\* C26: IteratorInput::next returns consecutive, non-overlapping frames of
\* exactly frame_len samples in iterator order; once the iterator cannot
\* supply a full frame it returns StreamEnded, and so on every later call.
IteratorFrames ==
    /\ \A k \in DOMAIN itOut :
        /\ itOut[k].ok <=> k * itFrameLen <= itLen
        /\ itOut[k].ok =>
              itOut[k].samples = [i \in 1..itFrameLen |-> (k - 1) * itFrameLen + i - 1]
    /\ \A k, j \in DOMAIN itOut : (k < j /\ ~itOut[k].ok) => ~itOut[j].ok

\* Two full frames, then StreamEnded twice with a short remainder dropped
IteratorFramesWitness ==
    /\ Len(itOut) = MaxIterCalls
    /\ itOut[2].ok
    /\ ~itOut[3].ok
    /\ itLen % itFrameLen # 0

\* C26 (amended): with_frame_len may change frame_len between calls. Each
\* next() takes min(frame_len, remaining) samples from the iterator, starting
\* where the previous call stopped; it returns Ok with exactly the frame_len
\* in force, as the next consecutive samples, when that many remain, and
\* StreamEnded otherwise (the short remainder is consumed). After a
\* StreamEnded every later call returns StreamEnded, except that a call with
\* frame_len 0 returns Ok with an empty frame.
IteratorFramesResizable ==
    /\ \A k \in DOMAIN itOut :
        /\ itOut[k].ok <=> itOut[k].pos + itOut[k].fl <= itLen
        /\ itOut[k].ok =>
              itOut[k].samples = [i \in 1..itOut[k].fl |-> itOut[k].pos + i - 1]
        /\ itOut[k].pos = IF k = 1 THEN 0
                          ELSE IF itOut[k - 1].ok THEN itOut[k - 1].pos + itOut[k - 1].fl
                          ELSE itLen
    /\ \A k, j \in DOMAIN itOut :
        (k < j /\ ~itOut[k].ok) => (itOut[j].ok <=> itOut[j].fl = 0)

\* Frames of two different lengths, then StreamEnded, then an empty frame
IteratorFramesResizedWitness ==
    \E k, j, m, n \in DOMAIN itOut :
        /\ k < j /\ j < m /\ m < n
        /\ itOut[k].ok /\ itOut[j].ok /\ itOut[k].fl # itOut[j].fl /\ itOut[j].fl > 0
        /\ ~itOut[m].ok /\ itOut[n].ok

\* C27: cur_sample is Some(k) only if cur_frame is Some(f) with
\* 0 <= k < f.samples.len(), the first k samples of f having been copied; it is
\* None exactly when the current frame has been fully copied. So the
\* assertion start < end never fails (non-empty dst, non-empty frames).
FrameReceiverInvariant ==
    /\ outCurSample # -1 =>
          /\ outCur # <<>>
          /\ 0 <= outCurSample /\ outCurSample < Len(outCur)
          /\ LastN(outWritten, outCurSample) = SubSeq(outCur, 1, outCurSample)
    /\ (outCurSample = -1 /\ outCur # <<>>) => LastN(outWritten, Len(outCur)) = outCur
    /\ lastFill.res # "panic"

\* A fill that filled dst and stopped in the middle of a frame
FrameReceiverInvariantWitness ==
    /\ outCurSample > 0
    /\ lastFill.res = "ok"
    /\ lastFill.count = lastFill.n
    /\ Len(outWritten) >= 3

\* C28: a fill_buffer call that copies some samples into dst and then finds
\* the channel closed returns Err(EndOfStream) rather than the count; the
\* samples it copied are in dst but their number is not reported.
FillPartialThenClosed ==
    [][ (FillReturn /\ outSenderClosed /\ 0 < lastFill'.count /\ lastFill'.count < lastFill'.n)
        => /\ lastFill'.res = "eos"
           /\ LastN(outWritten', lastFill'.count) = lastFill'.data
           /\ Len(lastFill'.data) = lastFill'.count ]_vars

FillPartialThenClosedWitness ==
    /\ lastFill.res = "eos"
    /\ lastFill.count > 0

\* C29: in the Executor loop, where each PeriodBuffer::push is followed by
\* draining every available Period, a frame of at most max_len - period_len
\* samples per channel never trips the retention assertion of push, and
\* after every Executor::process call that returns, whatever the frame's
\* length, has_next() is false.
ExecutorNoUnderrun ==
    [][ ExecRead =>
        /\ (exSc' - exSc <= ExecMaxLen - ExecPeriodLen) => exPc' # "panic"
        /\ exPc' # "panic" => ~(exNpe' <= exSc') ]_vars

\* A first frame of exactly max_len - period_len samples, processed
ExecutorNoUnderrunWitness ==
    /\ exReads = 1
    /\ exSc = ExecMaxLen - ExecPeriodLen
    /\ exPc \in {"read", "send"}
    /\ exNpe > exSc

\* C30: if period_len > max_len the PeriodBuffer never yields a Period: the
\* first period starts at 0, which leaves the ring as soon as sample_count
\* exceeds max_len, so the retention assertion of push fails (on frames
\* SampleBuffer::push accepts) before sample_count reaches period_len.
PeriodLongerThanBuffer ==
    periodLen > maxLen =>
        /\ periodsOut = 0
        /\ ~lastPeriod.some
        /\ sampleCount > maxLen =>
              /\ panicked
              /\ SampleBufferPushOk(lastFrame)
              /\ nextPeriodEnd - periodLen < sampleCount - Min(sampleCount, maxLen)
        /\ sampleCount >= periodLen => panicked

PeriodLongerThanBufferWitness ==
    /\ periodLen > maxLen
    /\ panicked
    /\ sampleCount >= periodLen
    /\ SampleBufferPushOk(lastFrame)

\* C31: with a consumer that keeps receiving, once the input adapter reports
\* closure the Executor eventually delivers AudioStreamClosed (unless the
\* consumer has closed) and terminates; and while the consumer neither
\* receives nor closes, an Executor that must send into a full channel is
\* blocked: none of its steps is enabled (there is no timeout).
ExecutorLiveness ==
    /\ (inputClosed /\ exPc # "panic")
         ~> (exPc = "exit" /\ (conClosed \/ (conRecv # <<>> /\ IsClosed(conRecv[Len(conRecv)]))))
    /\ [](( ~conClosed /\ Len(conQ) = ChannelMax
            /\ (exPc = "send" \/ (exPc = "read" /\ inputClosed)))
           => ~ENABLED (ExecRead \/ ExecSend \/ ExecReadFail))

\* The input closed while the Executor had messages pending on a full channel
ExecutorBlockedWitness ==
    /\ inputClosed
    /\ ~conClosed
    /\ Len(conQ) = ChannelMax
    /\ exPc = "send"

\* C32: WavWriter::push flushes exactly when the interleaved samples written
\* since the last flush exceed flush_every = sample_rate, and then restarts
\* the count at 0; at most sample_rate + (last frame's sample count) samples
\* are unflushed; with c channels the samples between two flushes span just
\* over sample_rate / c sample periods, about 1/c second.
WavFlushPolicy ==
    /\ wavCount = wavWritten - wavFlushedAt
    /\ wavWritten - wavFlushedAt <= wavRate + wavLastLen
    /\ wavLastGap # -1 =>
          /\ wavLastGap > wavRate
          /\ wavLastGap <= wavRate + MaxWavFrame * wavChannels
          /\ wavLastGap % wavChannels = 0
    /\ [][ WavWriterPush =>
            ((wavFlushedAt' # wavFlushedAt) <=> (wavWritten' - wavFlushedAt > wavRate)) ]_vars

\* A stereo stream that flushed after just over sample_rate interleaved samples
WavFlushPolicyWitness ==
    /\ wavChannels = 2
    /\ wavLastGap > wavRate
    /\ wavLastGap \div wavChannels <= wavRate \div 2 + MaxWavFrame
    /\ wavWritten > wavFlushedAt

\* C33: with the capture callback and the Executor reading concurrently from
\* the bounded input channel, the channel never holds more than CHANNEL_MAX
\* Frames, and every callback invocation completes without waiting, whatever
\* the reader does: the callback is always enabled, and the device's
\* invocations all complete even if the reader never receives.
CaptureNeverWaits ==
    /\ [](/\ Len(capQ) <= ChannelMax
          /\ capCount < MaxCallbacks => ENABLED CaptureCallback)
    /\ <>(capCount = MaxCallbacks)

\* The queue full, the reader stalled, and the callbacks still completing
CaptureNeverWaitsWitness ==
    /\ Len(capQ) = ChannelMax
    /\ ~capRxGone
    /\ capRecv = <<>>
    /\ capCount = MaxCallbacks

====
